---- MODULE Spec2Model ----
(***************************************************************************)
(* Workspace intelligence and relevance scoring of the Cursor MCP server:   *)
(* analyzeWorkspaceContent (src/src/cursor/analysis.ts), the search         *)
(* scorer calculateRelevanceScore (src/unnamed/part_002) and the related-   *)
(* session similarity of findRelatedSessionsImpl                            *)
(* (src/src/cursor/session-tools.ts).                                       *)
(*                                                                          *)
(* Text.  A JavaScript string is modelled as a sequence of tokens that the  *)
(* string holds separated by single blanks: a token is a word (a maximal    *)
(* run of \w characters), one of the punctuation marks "," and ".", or the  *)
(* empty string (so that joining an empty entry leaves two blanks in a row, *)
(* as Array.join does).  Spelling gives the characters of each token, and   *)
(* every character-level operation of the code (length, substring search,   *)
(* the {10,50} quantifier of the capture groups) is computed from it.       *)
(* All tokens are lower-case; String.toLowerCase is therefore the identity  *)
(* on the inputs drawn here and is not written out.                         *)
(***************************************************************************)
EXTENDS Integers, Sequences, FiniteSets, TLC

(***************************************************************************)
(* Bounds of the model.                                                     *)
(***************************************************************************)
MaxPrompts == 21

MaxClock == 1

MaxCalls == 2

\* the older entries and the changes of the sessions a conversation gains
MaxOlder == 2

StartTime == 3

LongWordLen == 1001

\* occurrences of a query term added to a text that is scored again
MaxOccurrences == 1

\* exchanges of the roles of search text and session text
MaxExchanges == 1

\* finder: session ids generateSessionId can return
MaxGenerated == 1

\* finder: requests handled
MaxRequests == 2

\* finder: the hours that pass
MaxTime == 2

\* the finder requests that can be in flight at once
MaxInFlight == 2

(***************************************************************************)
(* Tokens and their spelling.                                               *)
(***************************************************************************)
LongWord == "x{n}"

Punctuation == {",", "."}

Spelling ==
  ("" :> <<>>) @@ ("," :> <<",">>) @@ ("." :> <<".">>) @@
  (LongWord :> [i \in 1..LongWordLen |-> "x"]) @@
  ("x{49}" :> [i \in 1..49 |-> "x"]) @@
  ("x{50}" :> [i \in 1..50 |-> "x"]) @@
  ("x{94}" :> [i \in 1..94 |-> "x"]) @@
  ("x{95}" :> [i \in 1..95 |-> "x"]) @@
  ("x{150}" :> [i \in 1..150 |-> "x"]) @@
  ("x{151}" :> [i \in 1..151 |-> "x"]) @@
  ("a" :> <<"a">>) @@
  ("app" :> <<"a", "p", "p">>) @@
  ("bug" :> <<"b", "u", "g">>) @@
  ("build" :> <<"b", "u", "i", "l", "d">>) @@
  ("building" :> <<"b", "u", "i", "l", "d", "i", "n", "g">>) @@
  ("c++" :> <<"c", "+", "+">>) @@
  ("chat" :> <<"c", "h", "a", "t">>) @@
  ("django" :> <<"d", "j", "a", "n", "g", "o">>) @@
  ("docker" :> <<"d", "o", "c", "k", "e", "r">>) @@
  ("done" :> <<"d", "o", "n", "e">>) @@
  ("fixed" :> <<"f", "i", "x", "e", "d">>) @@
  ("flask" :> <<"f", "l", "a", "s", "k">>) @@
  ("jest" :> <<"j", "e", "s", "t">>) @@
  ("login" :> <<"l", "o", "g", "i", "n">>) @@
  ("mongodb" :> <<"m", "o", "n", "g", "o", "d", "b">>) @@
  ("pip" :> <<"p", "i", "p">>) @@
  ("python" :> <<"p", "y", "t", "h", "o", "n">>) @@
  ("react" :> <<"r", "e", "a", "c", "t">>) @@
  ("redis" :> <<"r", "e", "d", "i", "s">>) @@
  ("the" :> <<"t", "h", "e">>) @@
  ("to" :> <<"t", "o">>) @@
  ("typescript" :> <<"t", "y", "p", "e", "s", "c", "r", "i", "p", "t">>) @@
  ("want" :> <<"w", "a", "n", "t">>) @@
  ("websockets" :> <<"w", "e", "b", "s", "o", "c", "k", "e", "t", "s">>) @@
  ("with" :> <<"w", "i", "t", "h">>)

Vocabulary == DOMAIN Spelling

IsWord(tok) == tok # "" /\ tok \notin Punctuation

WordLen(tok) == Len(Spelling[tok])

RECURSIVE SumTo(_, _)
SumTo(F(_), n) == IF n = 0 THEN 0 ELSE F(n) + SumTo(F, n - 1)

\* sum of F over a finite set
RECURSIVE SumOver(_, _)
SumOver(F(_), S) ==
  IF S = {} THEN 0
  ELSE LET x == CHOOSE y \in S : TRUE IN F(x) + SumOver(F, S \ {x})

\* number of characters of tokens first..last of the text and of the blanks
\* between them
SpanLength(text, first, last) ==
  IF first > last THEN 0
  ELSE LET L(w) == WordLen(w) * Cardinality({i \in first..last : text[i] = w})
       IN SumOver(L, {text[i] : i \in first..last}) + (last - first)

\* text.length of the string whose tokens are text
TextLength(text) == SpanLength(text, 1, Len(text))

\* offset in the string of the first character of token i
Offset(text, i) == IF i = 1 THEN 0 ELSE SpanLength(text, 1, i - 1) + 1

\* Array.join(' ') of strings: an empty array gives the empty string, an
\* empty string among several keeps its place between two blanks
RECURSIVE Join(_)
Join(texts) ==
  IF Len(texts) = 0 THEN <<"">>
  ELSE IF Len(texts) = 1 THEN Head(texts)
  ELSE Head(texts) \o Join(Tail(texts))

(***************************************************************************)
(* Pattern tables (TECHNOLOGY_PATTERNS, PROJECT_TYPE_PATTERNS,              *)
(* STATUS_PATTERNS), in declaration order, each pattern as the tokens of    *)
(* its lower-cased text.  LookWord closes a pattern that ends in a blank    *)
(* ('def ', 'import ', 'class '): the closing \b then asks for a word       *)
(* character right after the blank.                                         *)
(***************************************************************************)
LookWord == "\\b"

TECHNOLOGY_PATTERNS ==
  <<
  [label |-> "React", patterns |-> <<
       <<"react">>, <<"jsx">>, <<"tsx">>, <<"component">>,
       <<"usestate">>, <<"useeffect">>, <<"props">>, <<"react-dom">>,
       <<"create-react-app">>>>],
  [label |-> "Vue", patterns |-> <<
       <<"vue">>, <<"vuejs">>, <<"vue.js">>, <<"nuxt">>,
       <<"composition", "api">>, <<"reactive">>, <<"ref(">>>>],
  [label |-> "Angular", patterns |-> <<
       <<"angular">>, <<"ng-">>, <<"typescript">>, <<"@angular">>,
       <<"@component">>, <<"@injectable">>>>],
  [label |-> "Svelte", patterns |-> <<
       <<"svelte">>, <<"sveltekit">>, <<".svelte">>>>],
  [label |-> "Node.js", patterns |-> <<
       <<"nodejs">>, <<"node.js">>, <<"npm">>, <<"package.json">>,
       <<"express">>, <<"node_modules">>, <<"require(">>, <<"module.exports">>>>],
  [label |-> "Express", patterns |-> <<
       <<"express">>, <<"app.listen">>, <<"middleware">>, <<"app.get">>,
       <<"app.post">>, <<"router">>>>],
  [label |-> "Django", patterns |-> <<
       <<"django">>, <<"python">>, <<"models.py">>, <<"views.py">>,
       <<"urls.py">>, <<"settings.py">>, <<"manage.py">>>>],
  [label |-> "Flask", patterns |-> <<
       <<"flask">>, <<"python">>, <<"app.route">>, <<"@app.route">>,
       <<"render_template">>>>],
  [label |-> "FastAPI", patterns |-> <<
       <<"fastapi">>, <<"python">>, <<"pydantic">>, <<"@app.get">>,
       <<"@app.post">>, <<"uvicorn">>>>],
  [label |-> "Spring", patterns |-> <<
       <<"spring">>, <<"java">>, <<"@controller">>, <<"@service">>,
       <<"@repository">>, <<"@autowired">>>>],
  [label |-> "Next.js", patterns |-> <<
       <<"nextjs">>, <<"next.js">>, <<"next/image">>, <<"next/router">>,
       <<"getserversideprops">>, <<"getstaticprops">>>>],
  [label |-> "TypeScript", patterns |-> <<
       <<"typescript">>, <<".ts">>, <<".tsx">>, <<"interface">>,
       <<"type">>, <<"enum">>, <<"namespace">>, <<"tsc">>>>],
  [label |-> "JavaScript", patterns |-> <<
       <<"javascript">>, <<".js">>, <<".mjs">>, <<"function">>,
       <<"const">>, <<"let">>, <<"var">>, <<"arrow", "function">>>>],
  [label |-> "Python", patterns |-> <<
       <<"python">>, <<".py">>, <<"def", LookWord>>, <<"import", LookWord>>,
       <<"pip">>, <<"requirements.txt">>, <<"venv">>, <<"__init__.py">>>>],
  [label |-> "Java", patterns |-> <<
       <<"java">>, <<".java">>, <<"class", LookWord>>, <<"public", "static">>,
       <<"maven">>, <<"gradle">>, <<"springframework">>>>],
  [label |-> "C#", patterns |-> <<
       <<"csharp">>, <<"c#">>, <<".cs">>, <<"using", "system">>,
       <<"namespace">>, <<".net">>, <<"visual", "studio">>>>],
  [label |-> "Go", patterns |-> <<
       <<"golang">>, <<"go">>, <<".go">>, <<"func", "main">>,
       <<"package", "main">>, <<"go", "mod">>>>],
  [label |-> "Rust", patterns |-> <<
       <<"rust">>, <<".rs">>, <<"cargo">>, <<"fn", "main">>,
       <<"cargo.toml">>, <<"struct">>, <<"impl">>>>],
  [label |-> "PHP", patterns |-> <<
       <<"php">>, <<".php">>, <<"<?php">>, <<"composer">>,
       <<"laravel">>, <<"symfony">>>>],
  [label |-> "MongoDB", patterns |-> <<
       <<"mongodb">>, <<"mongo">>, <<"mongoose">>, <<"collection">>,
       <<"aggregation">>, <<"bson">>>>],
  [label |-> "PostgreSQL", patterns |-> <<
       <<"postgresql">>, <<"postgres">>, <<"psql">>, <<"pg_">>,
       <<"pgadmin">>>>],
  [label |-> "MySQL", patterns |-> <<
       <<"mysql">>, <<"mariadb">>, <<"mysqldump">>, <<"phpmyadmin">>>>],
  [label |-> "SQLite", patterns |-> <<
       <<"sqlite">>, <<"sqlite3">>, <<".db">>, <<".sqlite">>,
       <<"sqlite_">>>>],
  [label |-> "Redis", patterns |-> <<
       <<"redis">>, <<"cache">>, <<"redis-cli">>, <<"redisinsight">>>>],
  [label |-> "Docker", patterns |-> <<
       <<"docker">>, <<"dockerfile">>, <<"container">>, <<"docker-compose">>,
       <<"image">>, <<"containerization">>>>],
  [label |-> "Kubernetes", patterns |-> <<
       <<"kubernetes">>, <<"k8s">>, <<"kubectl">>, <<"pod">>,
       <<"deployment">>, <<"service">>, <<"namespace">>>>],
  [label |-> "AWS", patterns |-> <<
       <<"aws">>, <<"amazon">>, <<"ec2">>, <<"s3">>,
       <<"lambda">>, <<"cloudformation">>, <<"iam">>, <<"vpc">>>>],
  [label |-> "Azure", patterns |-> <<
       <<"azure">>, <<"microsoft">>, <<"az", "cli">>, <<"resource", "group">>,
       <<"app", "service">>>>],
  [label |-> "Git", patterns |-> <<
       <<"git">>, <<"github">>, <<"gitlab">>, <<"commit">>,
       <<"push">>, <<"pull">>, <<"merge">>, <<"branch">>,
       <<"repository">>>>],
  [label |-> "Jest", patterns |-> <<
       <<"jest">>, <<"test">>, <<"expect">>, <<"describe">>,
       <<"it(">>, <<"beforeeach">>>>],
  [label |-> "Cypress", patterns |-> <<
       <<"cypress">>, <<"e2e">>, <<"cy.">>, <<"integration", "test">>>>],
  [label |-> "Pytest", patterns |-> <<
       <<"pytest">>, <<"test_">>, <<"assert">>, <<"fixture">>,
       <<"conftest.py">>>>],
  [label |-> "React Native", patterns |-> <<
       <<"react", "native">>, <<"react-native">>, <<"expo">>, <<"metro">>,
       <<"react-native-cli">>>>],
  [label |-> "Flutter", patterns |-> <<
       <<"flutter">>, <<"dart">>, <<"widget">>, <<"pubspec.yaml">>,
       <<"flutter", "doctor">>>>],
  [label |-> "Swift", patterns |-> <<
       <<"swift">>, <<"ios">>, <<"xcode">>, <<"cocoapods">>,
       <<"swift", "package">>>>],
  [label |-> "Kotlin", patterns |-> <<
       <<"kotlin">>, <<"android">>, <<"gradle">>, <<"android", "studio">>>>],
  [label |-> "TensorFlow", patterns |-> <<
       <<"tensorflow">>, <<"tf.">>, <<"keras">>, <<"tensor">>,
       <<"neural", "network">>>>],
  [label |-> "PyTorch", patterns |-> <<
       <<"pytorch">>, <<"torch">>, <<"neural">>, <<"tensor">>,
       <<"autograd">>>>],
  [label |-> "OpenAI", patterns |-> <<
       <<"openai">>, <<"gpt">>, <<"chatgpt">>, <<"ai">>,
       <<"llm">>, <<"language", "model">>>>],
  [label |-> "LangChain", patterns |-> <<
       <<"langchain">>, <<"llm">>, <<"chain">>, <<"agent">>,
       <<"retrieval">>>>],
  [label |-> "MCP", patterns |-> <<
       <<"mcp">>, <<"model", "context", "protocol">>, <<"mcp", "server">>, <<"cursor">>,
       <<"typescript-mcp">>>>],
  [label |-> "Cursor", patterns |-> <<
       <<"cursor">>, <<"cursor", "ai">>, <<"composer">>, <<"workspace">>,
       <<"ai", "assistant">>>>]
  >>

PROJECT_TYPE_PATTERNS ==
  <<
  [label |-> "Web Application", patterns |-> <<
       <<"web", "app">>, <<"website">>, <<"frontend">>, <<"backend">>,
       <<"full", "stack">>, <<"api">>, <<"server">>, <<"client">>>>],
  [label |-> "Mobile App", patterns |-> <<
       <<"mobile">>, <<"ios">>, <<"android">>, <<"react", "native">>,
       <<"flutter">>, <<"app", "store">>, <<"mobile", "development">>>>],
  [label |-> "DevOps/Tooling", patterns |-> <<
       <<"devops">>, <<"deployment">>, <<"ci/cd">>, <<"docker">>,
       <<"kubernetes">>, <<"automation">>, <<"script">>, <<"infrastructure">>>>],
  [label |-> "Data Analysis", patterns |-> <<
       <<"data">>, <<"analysis">>, <<"visualization">>, <<"pandas">>,
       <<"numpy">>, <<"jupyter">>, <<"dataset">>, <<"analytics">>>>],
  [label |-> "Machine Learning", patterns |-> <<
       <<"ml">>, <<"ai">>, <<"model">>, <<"training">>,
       <<"neural">>, <<"tensorflow">>, <<"pytorch">>, <<"deep", "learning">>>>],
  [label |-> "Game Development", patterns |-> <<
       <<"game">>, <<"unity">>, <<"unreal">>, <<"godot">>,
       <<"pygame">>, <<"gaming">>>>],
  [label |-> "Desktop Application", patterns |-> <<
       <<"desktop">>, <<"electron">>, <<"tkinter">>, <<"qt">>,
       <<"gui">>, <<"desktop", "app">>>>],
  [label |-> "Library/Package", patterns |-> <<
       <<"library">>, <<"package">>, <<"npm">>, <<"pip">>,
       <<"gem">>, <<"framework">>, <<"sdk">>, <<"component", "library">>>>],
  [label |-> "Learning/Tutorial", patterns |-> <<
       <<"learn">>, <<"tutorial">>, <<"course">>, <<"practice">>,
       <<"exercise">>, <<"study">>, <<"example">>>>],
  [label |-> "Bug Fix/Debugging", patterns |-> <<
       <<"bug">>, <<"fix">>, <<"debug">>, <<"error">>,
       <<"issue">>, <<"problem">>, <<"troubleshoot">>>>],
  [label |-> "MCP Development", patterns |-> <<
       <<"mcp">>, <<"model", "context", "protocol">>, <<"mcp", "server">>, <<"cursor", "integration">>,
       <<"tool", "development">>>>],
  [label |-> "API Development", patterns |-> <<
       <<"api">>, <<"rest">>, <<"graphql">>, <<"endpoint">>,
       <<"microservice">>, <<"web", "service">>>>]
  >>

STATUS_PATTERNS ==
  <<
  [label |-> "Setup", patterns |-> <<
       <<"setup">>, <<"install">>, <<"initialize">>, <<"create", "project">>,
       <<"getting", "started">>, <<"first", "time">>, <<"configuration">>, <<"environment">>>>],
  [label |-> "Active", patterns |-> <<
       <<"implement">>, <<"add", "feature">>, <<"working", "on">>, <<"build">>,
       <<"develop">>, <<"creating">>, <<"coding">>, <<"writing">>>>],
  [label |-> "Problem Solving", patterns |-> <<
       <<"error">>, <<"bug">>, <<"fix">>, <<"debug">>,
       <<"issue">>, <<"problem">>, <<"stuck">>, <<"help">>,
       <<"troubleshoot">>, <<"not", "working">>>>],
  [label |-> "Documentation", patterns |-> <<
       <<"document">>, <<"readme">>, <<"comment">>, <<"explain">>,
       <<"write", "docs">>, <<"documentation">>, <<"guide">>>>],
  [label |-> "Complete", patterns |-> <<
       <<"done">>, <<"finished">>, <<"complete">>, <<"deploy">>,
       <<"release">>, <<"final">>, <<"production">>, <<"live">>>>],
  [label |-> "Abandoned", patterns |-> <<
       <<"abandon">>, <<"stop">>, <<"cancel">>, <<"give", "up">>,
       <<"not", "working">>, <<"switching", "to">>>>]
  >>


(***************************************************************************)
(* Weighted classifier.                                                     *)
(***************************************************************************)
Range(s) == {s[i] : i \in DOMAIN s}

Min(S) == CHOOSE x \in S : \A y \in S : x <= y

\* the tokens of a pattern that must be in the text (LookWord only looks)
PatternWidth(pattern) ==
  IF pattern[Len(pattern)] = LookWord THEN Len(pattern) - 1 ELSE Len(pattern)

\* new RegExp(`\\b${escaped pattern}\\b`) matches the text at token i
MatchesAt(text, pattern, i) ==
  LET n == PatternWidth(pattern) IN
    /\ i + n - 1 <= Len(text)
    /\ \A j \in 1..n : text[i + j - 1] = pattern[j]
    /\ n < Len(pattern) => (i + n <= Len(text) /\ IsWord(text[i + n]))

\* text.match(regex with flag g): the matches found left to right, each
\* search starting where the previous match ended; at is the set of tokens
\* at which the regex matches
RECURSIVE MatchCountFrom(_, _, _)
MatchCountFrom(at, width, from) ==
  LET left == {i \in at : i >= from}
  IN IF left = {} THEN 0
     ELSE 1 + MatchCountFrom(at, width, Min(left) + width)

MatchCount(text, pattern) ==
  LET at == {i \in DOMAIN text : MatchesAt(text, pattern, i)}
  IN IF \A i \in DOMAIN text : text[i] # pattern[1] THEN 0
     ELSE IF PatternWidth(pattern) = 1 THEN Cardinality(at)
     ELSE MatchCountFrom(at, PatternWidth(pattern), 1)

\* score of one label: matches.length * weight summed over its patterns,
\* weight = patterns.length - index (index from 0)
WeightedScore(text, patterns) ==
  LET S(k) == MatchCount(text, patterns[k]) * (Len(patterns) - (k - 1))
  IN SumTo(S, Len(patterns))

\* score of one status: matches.length summed over its patterns
PlainScore(text, patterns) ==
  LET S(k) == MatchCount(text, patterns[k]) IN SumTo(S, Len(patterns))

\* a sort that puts an entry before the entries of equal score: the order of
\* a sort that is not stable
RECURSIVE InsertBeforeTies(_, _)
InsertBeforeTies(sorted, e) ==
  IF Len(sorted) = 0 THEN <<e>>
  ELSE IF Head(sorted).score > e.score
       THEN <<Head(sorted)>> \o InsertBeforeTies(Tail(sorted), e)
       ELSE <<e>> \o sorted

\* the entries left in the order of the table: no sort at all
TableOrder(entries) == entries

\* Array.prototype.sort((a, b) => b[1] - a[1]): stable, descending by score
RECURSIVE InsertByScore(_, _)
InsertByScore(sorted, e) ==
  IF Len(sorted) = 0 THEN <<e>>
  ELSE IF Head(sorted).score >= e.score
       THEN <<Head(sorted)>> \o InsertByScore(Tail(sorted), e)
       ELSE <<e>> \o sorted

RECURSIVE SortByScore(_)
SortByScore(entries) ==
  IF Len(entries) = 0 THEN <<>>
  ELSE InsertByScore(SortByScore(SubSeq(entries, 1, Len(entries) - 1)),
                     entries[Len(entries)])

\* the Map built by the forEach: the entries with score > 0, in table order
RECURSIVE Positive(_)
Positive(entries) ==
  IF Len(entries) = 0 THEN <<>>
  ELSE IF Head(entries).score > 0
       THEN <<Head(entries)>> \o Positive(Tail(entries))
       ELSE Positive(Tail(entries))

\* a slice that keeps the whole array: what the lists of the analysis would
\* be without their caps
Unsliced(s, n) == s

\* Array.slice(0, n)
Slice(s, n) == SubSeq(s, 1, IF Len(s) < n THEN Len(s) ELSE n)

techScores(text) ==
  Positive([k \in DOMAIN TECHNOLOGY_PATTERNS |->
     [label |-> TECHNOLOGY_PATTERNS[k].label,
      score |-> WeightedScore(text, TECHNOLOGY_PATTERNS[k].patterns)]])

\* .map(([label]) => label)
Labels(entries) == [k \in DOMAIN entries |-> entries[k].label]

detectTechnologies(text) == Labels(Slice(SortByScore(techScores(text)), 5))

typeScores(text) ==
  Positive([k \in DOMAIN PROJECT_TYPE_PATTERNS |->
     [label |-> PROJECT_TYPE_PATTERNS[k].label,
      score |-> WeightedScore(text, PROJECT_TYPE_PATTERNS[k].patterns)]])

\* the first label that has a score, whatever the scores are
FirstLabel(scores, none) ==
  IF Len(scores) = 0 THEN none ELSE scores[1].label

\* the label with the best score, none when no label has a score
TopLabel(scores, none) ==
  IF Len(scores) = 0 THEN none ELSE SortByScore(scores)[1].label

\* a classification that has no 'Unknown': the first project type of the table
FirstProjectType(text) == PROJECT_TYPE_PATTERNS[1].label

determineProjectType(text) == TopLabel(typeScores(text), "Unknown")

(***************************************************************************)
(* Characters.  A string built by the code from parts of the text (a regex  *)
(* capture, a cleaned project name) is the sequence of its characters.      *)
(***************************************************************************)
Upper ==
  ("a" :> "A") @@ ("b" :> "B") @@ ("c" :> "C") @@ ("d" :> "D") @@
  ("e" :> "E") @@ ("f" :> "F") @@ ("g" :> "G") @@ ("h" :> "H") @@
  ("i" :> "I") @@ ("j" :> "J") @@ ("k" :> "K") @@ ("l" :> "L") @@
  ("m" :> "M") @@ ("n" :> "N") @@ ("o" :> "O") @@ ("p" :> "P") @@
  ("q" :> "Q") @@ ("r" :> "R") @@ ("s" :> "S") @@ ("t" :> "T") @@
  ("u" :> "U") @@ ("v" :> "V") @@ ("w" :> "W") @@ ("x" :> "X") @@
  ("y" :> "Y") @@ ("z" :> "Z")

Letters == DOMAIN Upper

Digits == {"0", "1", "2", "3", "4", "5", "6", "7", "8", "9"}

IsPrefix(s, w) == Len(s) <= Len(w) /\ SubSeq(w, 1, Len(s)) = s

IsSuffix(s, w) == Len(s) <= Len(w) /\ SubSeq(w, Len(w) - Len(s) + 1, Len(w)) = s

\* String.includes
IsSubstring(s, w) ==
  \E k \in 1..(Len(w) - Len(s) + 1) : SubSeq(w, k, k + Len(s) - 1) = s

\* the first limit characters of the text from token i on
RECURSIVE CharsFrom(_, _, _)
CharsFrom(text, i, limit) ==
  IF i > Len(text) \/ limit <= 0 THEN <<>>
  ELSE LET w == Spelling[text[i]] IN
         IF Len(w) >= limit THEN SubSeq(w, 1, limit)
         ELSE IF i = Len(text) THEN w
         ELSE w \o <<" ">> \o CharsFrom(text, i + 1, limit - Len(w) - 1)

\* length of the longest prefix of chars whose characters all satisfy Allowed
PrefixRun(chars, Allowed(_)) ==
  LET bad == {k \in DOMAIN chars : ~Allowed(chars[k])}
  IN IF bad = {} THEN Len(chars) ELSE Min(bad) - 1

\* String.trim
Trim(chars) ==
  LET solid == {k \in DOMAIN chars : chars[k] # " "}
  IN IF solid = {} THEN <<>>
     ELSE SubSeq(chars, Min(solid), CHOOSE x \in solid : \A y \in solid : y <= x)

\* text.split(' ').map(word => word.charAt(0).toUpperCase() +
\* word.slice(1).toLowerCase()).join(' ')
capitalizeWords(chars) ==
  [k \in DOMAIN chars |->
     IF (k = 1 \/ chars[k - 1] = " ") /\ chars[k] \in Letters
     THEN Upper[chars[k]] ELSE chars[k]]

(***************************************************************************)
(* Topic and entity extraction.                                             *)
(***************************************************************************)
TOPIC_STOPWORDS ==
  {"this", "that", "they", "have", "been", "will", "would", "could", "should",
   "when", "where", "what", "how", "with", "from", "your", "mine", "our"}

\* the elements of a set of tokens of the text in the order in which they
\* first occur in it (the key order of a Map filled word by word)
RECURSIVE ByFirstOccurrence(_, _)
ByFirstOccurrence(text, words) ==
  IF words = {} THEN <<>>
  ELSE LET first(w) == Min({i \in DOMAIN text : text[i] = w})
           w0 == CHOOSE w \in words : \A v \in words : first(w) <= first(v)
       IN <<w0>> \o ByFirstOccurrence(text, words \ {w0})

\* the words that pass the two filters of extractKeyTopics
TopicWords(text) ==
  ByFirstOccurrence(text,
    {w \in Range(text) : IsWord(w) /\ WordLen(w) > 3 /\ w \notin TOPIC_STOPWORDS})

CountsOf(text, keys) ==
  [k \in DOMAIN keys |->
     [label |-> keys[k],
      score |-> Cardinality({i \in DOMAIN text : text[i] = keys[k]})]]

wordCounts(text) == CountsOf(text, TopicWords(text))

\* a filter that keeps the words that occur once as well
AtLeastOnce(entries) == entries

\* .filter(([_, count]) => count >= 2)
RECURSIVE AtLeastTwo(_)
AtLeastTwo(entries) ==
  IF Len(entries) = 0 THEN <<>>
  ELSE IF Head(entries).score >= 2
       THEN <<Head(entries)>> \o AtLeastTwo(Tail(entries))
       ELSE AtLeastTwo(Tail(entries))

CapitalizedLabels(top) == [k \in DOMAIN top |-> capitalizeWords(Spelling[top[k].label])]

extractKeyTopics(text) ==
  CapitalizedLabels(Slice(SortByScore(AtLeastTwo(wordCounts(text))), 8))

\* A trigger phrase is the sequence of its words.  In a regex that has no \b
\* before the phrase and \s+ after it, the phrase is found where its first
\* word ends a token and its other words are the next tokens.
PROBLEM_TRIGGERS ==
  << << <<"f", "i", "x", "e", "d">> >>,
     << <<"s", "o", "l", "v", "e", "d">> >>,
     << <<"r", "e", "s", "o", "l", "v", "e", "d">> >>,
     << <<"d", "e", "b", "u", "g", "g", "e", "d">> >> >>

GOAL_INTENT_TRIGGERS ==
  << << <<"w", "a", "n", "t">>, <<"t", "o">> >>,
     << <<"n", "e", "e", "d">>, <<"t", "o">> >>,
     << <<"t", "r", "y", "i", "n", "g">>, <<"t", "o">> >>,
     << <<"g", "o", "a", "l">>, <<"i", "s">>, <<"t", "o">> >>,
     << <<"p", "l", "a", "n", "n", "i", "n", "g">>, <<"t", "o">> >> >>

GOAL_ACTION_TRIGGERS ==
  << << <<"i", "m", "p", "l", "e", "m", "e", "n", "t">> >>,
     << <<"a", "d", "d">> >>,
     << <<"c", "r", "e", "a", "t", "e">> >>,
     << <<"b", "u", "i", "l", "d">> >> >>

TriggerAt(text, i, trigger) ==
  /\ i + Len(trigger) - 1 <= Len(text)
  /\ IsSuffix(trigger[1], Spelling[text[i]])
  /\ \A j \in 2..Len(trigger) : Spelling[text[i + j - 1]] = trigger[j]

NotTerminator(c) == c \notin {".", "!", "?"}

Blanks(n) == [k \in 1..n |-> " "]

\* the first token after e that is not empty (Len(text) + 1 when none is)
NextSolid(text, e) ==
  LET solid == {j \in (e + 1)..Len(text) : text[j] # ""}
  IN IF solid = {} THEN Len(text) + 1 ELSE Min(solid)

\* the group ([^.!?]{10,50}) after b blanks: the first r characters of tail
\* end no sentence; when fewer than 10 do, \s+ gives back all but one of its
\* blanks to the group
CaptureGroup(tail, r, b, endOff) ==
  IF r >= 10
  THEN [ok |-> TRUE, group |-> SubSeq(tail, 1, r), end |-> endOff + b + r]
  ELSE IF b >= 1 /\ r + (b - 1) >= 10
  THEN [ok |-> TRUE, group |-> Blanks(10 - r) \o SubSeq(tail, 1, r),
        end |-> endOff + b + r]
  ELSE [ok |-> FALSE, group |-> <<>>, end |-> endOff]

CaptureTail(tail, b, endOff) ==
  CaptureGroup(tail, PrefixRun(tail, NotTerminator), b, endOff)

\* s is the first token after e that is not empty
CaptureAt(text, e, s, endOff) ==
  CaptureTail(CharsFrom(text, s, 50),
              IF s > Len(text) THEN Len(text) - e ELSE s - e, endOff)

\* \s+([^.!?]{10,50}) tried right after token e, which ends at offset endOff:
\* \s+ takes the blanks that follow, the group the next 10 to 50 characters
\* that end no sentence
CaptureAfter(text, e, endOff) == CaptureAt(text, e, NextSolid(text, e), endOff)

\* the alternatives that match with their first word ending token i
TriggerHits(text, i, triggers) == {k \in DOMAIN triggers : TriggerAt(text, i, triggers[k])}

\* of the alternatives hits, the one that starts last
LastTrigger(triggers, hits) ==
  triggers[CHOOSE k \in hits : \A h \in hits : Len(triggers[k][1]) <= Len(triggers[h][1])]

\* the alternative found at token i.  The alternatives that match at one
\* token end at the same place, so one trial of the group decides them all;
\* the one that starts last is the one still available when the previous
\* match ended inside the token.
TriggerFound(text, i, triggers) == LastTrigger(triggers, TriggerHits(text, i, triggers))

\* a match: the trial m of the group, and the offset at which the match starts
MatchStart(m, start) == [ok |-> m.ok, group |-> m.group, end |-> m.end, start |-> start]

\* the group tried after the trigger that ends with token e
MatchEnd(text, e) == CaptureAfter(text, e, Offset(text, e) + WordLen(text[e]))

MatchOf(text, i, trigger) ==
  MatchStart(MatchEnd(text, i + Len(trigger) - 1),
             Offset(text, i) + WordLen(text[i]) - Len(trigger[1]))

\* the match that starts in token i: its start, and the group tried after it
MatchFrom(text, i, triggers) == MatchOf(text, i, TriggerFound(text, i, triggers))

\* [...text.matchAll(/(?:triggers)\s+([^.!?]{10,50})/gi)]: the groups of the
\* matches, left to right; a match starts at or after minOff, where the
\* previous one ended.  matches maps each token that ends with a trigger to
\* the match that starts there.
RECURSIVE CapturesFrom(_, _)
CapturesThen(matches, i) ==
  <<matches[i].group>>
  \o CapturesFrom([j \in {k \in DOMAIN matches : k > i} |-> matches[j]], matches[i].end)

CapturesAmong(matches, good) ==
  IF good = {} THEN <<>> ELSE CapturesThen(matches, Min(good))

CapturesFrom(matches, minOff) ==
  CapturesAmong(matches, {i \in DOMAIN matches : matches[i].ok /\ matches[i].start >= minOff})

Captures(text, triggers) ==
  CapturesFrom([i \in {j \in DOMAIN text : TriggerHits(text, j, triggers) # {}} |->
                  MatchFrom(text, i, triggers)], 0)

\* capitalizeWords(match[1].trim()) of each group, the first n of them
Capitalized(groups, n) ==
  Slice([k \in DOMAIN groups |-> capitalizeWords(Trim(groups[k]))], n)

\* the second problem pattern, /(?:issue|problem|bug).*?(?:fixed|resolved|
\* solved)/gi, has no capture group: match[1] is undefined for each of its
\* matches and nothing is pushed for them
extractProblemsSolved(text) == Capitalized(Captures(text, PROBLEM_TRIGGERS), 3)

extractCurrentGoals(text) ==
  Capitalized(Captures(text, GOAL_INTENT_TRIGGERS) \o Captures(text, GOAL_ACTION_TRIGGERS), 3)

(***************************************************************************)
(* Smart label.                                                             *)
(***************************************************************************)
\* the list generic of isGenericText
GENERIC_TERMS ==
  << <<"d", "e", "v", "e", "l", "o", "p", "m", "e", "n", "t">>,
     <<"p", "r", "o", "j", "e", "c", "t">>,
     <<"a", "p", "p", "l", "i", "c", "a", "t", "i", "o", "n">>,
     <<"s", "y", "s", "t", "e", "m">>, <<"t", "o", "o", "l">>,
     <<"s", "e", "r", "v", "i", "c", "e">>,
     <<"w", "e", "b", "s", "i", "t", "e">>, <<"a", "p", "p">>,
     <<"c", "o", "d", "e">>, <<"p", "r", "o", "g", "r", "a", "m">>,
     <<"s", "o", "f", "t", "w", "a", "r", "e">>,
     <<"s", "c", "r", "i", "p", "t">>, <<"f", "i", "l", "e">>,
     <<"t", "h", "i", "s">>, <<"t", "h", "a", "t">>,
     <<"s", "o", "m", "e", "t", "h", "i", "n", "g">>,
     <<"a", "n", "y", "t", "h", "i", "n", "g">>,
     <<"e", "v", "e", "r", "y", "t", "h", "i", "n", "g">>,
     <<"n", "o", "t", "h", "i", "n", "g">>, <<"i", "s", "s", "u", "e">>,
     <<"p", "r", "o", "b", "l", "e", "m">>, <<"e", "r", "r", "o", "r">>,
     <<"b", "u", "g">>, <<"h", "e", "l", "p">>,
     <<"q", "u", "e", "s", "t", "i", "o", "n">> >>

\* the alternatives of the first replace of extractProjectName, in order
NAME_PREFIXES ==
  << <<"h", "o", "w", " ", "t", "o">>,
     <<"c", "a", "n", " ", "y", "o", "u">>,
     <<"h", "e", "l", "p", " ", "m", "e">>,
     <<"i", " ", "w", "a", "n", "t", " ", "t", "o">>,
     <<"p", "l", "e", "a", "s", "e">>, <<"l", "e", "t", "'", "s">>,
     <<"l", "e", "t", " ", "m", "e">>, <<"c", "r", "e", "a", "t", "e">>,
     <<"b", "u", "i", "l", "d">>, <<"d", "e", "v", "e", "l", "o", "p">>,
     <<"m", "a", "k", "e">>,
     <<"w", "o", "r", "k", "i", "n", "g", " ", "o", "n">>,
     <<"b", "u", "i", "l", "d", "i", "n", "g">>,
     <<"u", "n", "d", "e", "r", "s", "t", "a", "n", "d", "i", "n", "g">>,
     <<"r", "e", "v", "i", "e", "w">>, <<"f", "i", "x">>,
     <<"d", "e", "b", "u", "g">> >>

\* the words the second replace of extractProjectName removes
NAME_NOISE_WORDS ==
  << <<"a", "p", "p">>,
     <<"a", "p", "p", "l", "i", "c", "a", "t", "i", "o", "n">>,
     <<"p", "r", "o", "j", "e", "c", "t">>,
     <<"w", "e", "b", "s", "i", "t", "e">>, <<"t", "o", "o", "l">>,
     <<"s", "e", "r", "v", "i", "c", "e">>,
     <<"s", "y", "s", "t", "e", "m">>, <<"c", "o", "d", "e">>,
     <<"f", "i", "l", "e">>, <<"s", "c", "r", "i", "p", "t">>,
     <<"p", "r", "o", "g", "r", "a", "m">>,
     <<"s", "o", "f", "t", "w", "a", "r", "e">> >>

\* the string 'Development Project'
DEVELOPMENT_PROJECT ==
  <<"D", "e", "v", "e", "l", "o", "p", "m", "e", "n", "t">> \o
  <<" ">> \o <<"P", "r", "o", "j", "e", "c", "t">>

LABEL_VERB_TRIGGERS ==
  << << <<"b", "u", "i", "l", "d", "i", "n", "g">> >>,
     << <<"c", "r", "e", "a", "t", "i", "n", "g">> >>,
     << <<"d", "e", "v", "e", "l", "o", "p", "i", "n", "g">> >>,
     << <<"w", "o", "r", "k", "i", "n", "g">>, <<"o", "n">> >> >>

LABEL_NOUN_TRIGGERS ==
  << << <<"p", "r", "o", "j", "e", "c", "t">> >>,
     << <<"a", "p", "p">> >>,
     << <<"a", "p", "p", "l", "i", "c", "a", "t", "i", "o", "n">> >>,
     << <<"t", "o", "o", "l">> >> >>

LABEL_HELP_TRIGGERS ==
  << << <<"w", "i", "t", "h">> >>,
     << <<"c", "r", "e", "a", "t", "e">> >>,
     << <<"b", "u", "i", "l", "d">> >> >>

HELP == <<"h", "e", "l", "p">>

ARTICLE == <<"a">>

CALLED == <<"c", "a", "l", "l", "e", "d">>

\* a value of type string | null that is null
NULL == <<>>

isGenericText(chars) ==
  /\ \E k \in DOMAIN GENERIC_TERMS : IsSubstring(GENERIC_TERMS[k], chars)
  /\ Cardinality({k \in DOMAIN chars : chars[k] = " "}) + 1 < 4

\* the words left when the first n characters of the blank-joined words go
RECURSIVE DropChars(_, _)
DropChars(words, n) ==
  IF n = 0 \/ Len(words) = 0 THEN words
  ELSE LET w == Head(words) IN
         IF n < Len(w) THEN <<SubSeq(w, n + 1, Len(w))>> \o Tail(words)
         ELSE IF n = Len(w) THEN <<<<>>>> \o Tail(words)
         ELSE DropChars(Tail(words), n - Len(w) - 1)

RECURSIVE SelectWords(_, _)
SelectWords(Keep(_), words) ==
  IF Len(words) = 0 THEN <<>>
  ELSE IF Keep(Head(words))
       THEN <<Head(words)>> \o SelectWords(Keep, Tail(words))
       ELSE SelectWords(Keep, Tail(words))

\* Array.join(' ') of words that are character sequences
RECURSIVE JoinChars(_)
JoinChars(words) ==
  IF Len(words) = 0 THEN <<>>
  ELSE IF Len(words) = 1 THEN Head(words)
  ELSE Head(words) \o <<" ">> \o JoinChars(Tail(words))

\* the characters /[^\w\s-]/g leaves in a word
NameChar(c) == c \in Letters \/ c \in Digits \/ c \in {"_", "-"}

\* the length of the first alternative of the first replace that matches
\* at the start of the string (0 when none does)
PrefixLength(start) ==
  IF \A k \in DOMAIN NAME_PREFIXES : ~IsPrefix(NAME_PREFIXES[k], start) THEN 0
  ELSE Len(NAME_PREFIXES[Min({k \in DOMAIN NAME_PREFIXES : IsPrefix(NAME_PREFIXES[k], start)})])

NotNoise(w) == \A k \in DOMAIN NAME_NOISE_WORDS : w # NAME_NOISE_WORDS[k]

\* .filter(word => word.length > 2)
LongerThanTwo(w) == Len(w) > 2

\* .replace(/[^\w\s-]/g, '') of each word
CleanWords(kept) == [i \in DOMAIN kept |-> SelectSeq(kept[i], NameChar)]

NameOf(words, candidate) ==
  IF /\ Len(words) > 0
     /\ Len(words) <= 4
     /\ Len(candidate) > 3
     /\ Len(candidate) < 40
     /\ ~isGenericText(candidate)
  THEN capitalizeWords(candidate)
  ELSE NULL

NameOfWords(words) == NameOf(words, JoinChars(words))

extractProjectName(text) ==
  IF TextLength(text) < 3 THEN NULL
  ELSE NameOfWords(SelectWords(LongerThanTwo,
         CleanWords(SelectWords(NotNoise,
           DropChars([i \in DOMAIN text |-> Spelling[text[i]]],
                     PrefixLength(CharsFrom(text, 1, 13)))))))

LabelChar(c) == c \in Letters \/ c \in Digits \/ c = " "

\* the length of the match of [a-zA-Z][a-zA-Z0-9\s]{0,25} at the start of chars
NameRun(chars) ==
  IF Len(chars) = 0 \/ chars[1] \notin Letters THEN 0
  ELSE 1 + PrefixRun(Tail(chars), LabelChar)

NameGroup(chars, run) == [ok |-> run >= 4, group |-> SubSeq(chars, 1, run)]

NameCaptureOf(chars) == NameGroup(chars, NameRun(chars))

\* ([a-zA-Z][a-zA-Z0-9\s]{3,25}) tried at the start of token s
NameCapture(text, s) == NameCaptureOf(CharsFrom(text, s, 26))

\* the tokens at which the group may start after token s, the first that is
\* not empty after a trigger: s itself, and the token after it when s is the
\* optional word
GroupStarts(text, s, s2, optional) ==
  IF s > Len(text) THEN {}
  ELSE IF Len(optional) > 0 /\ Spelling[text[s]] = optional /\ s2 <= Len(text)
       THEN {s, s2}
       ELSE {s}

\* the optional word is taken when the group then matches, and given up
\* otherwise
CaptureChoice(captures, s, s2) ==
  IF DOMAIN captures = {} THEN [ok |-> FALSE, group |-> <<>>]
  ELSE IF s2 \in DOMAIN captures /\ captures[s2].ok THEN captures[s2]
  ELSE captures[s]

LabelCaptureAt(text, s, s2, optional) ==
  CaptureChoice([p \in GroupStarts(text, s, s2, optional) |-> NameCapture(text, p)], s, s2)

LabelCaptureFrom(text, s, optional) ==
  LabelCaptureAt(text, s, NextSolid(text, s), optional)

\* \s+(?:optional\s+)?(group) tried right after token e
LabelCaptureAfter(text, e, optional) ==
  LabelCaptureFrom(text, NextSolid(text, e), optional)

\* the group tried after the trigger found at token i
LabelMatchAt(text, triggers, optional, i) ==
  LabelCaptureAfter(text, i + Len(triggers[Min(TriggerHits(text, i, triggers))]) - 1,
                    optional)

\* group 1 of the first of the trials that matches, NULL when none does
FirstAmong(captures, good) ==
  IF good = {} THEN NULL ELSE captures[Min(good)].group

FirstGroup(captures) ==
  FirstAmong(captures, {i \in DOMAIN captures : captures[i].ok})

\* group 1 of the first match of /(?:triggers)\s+(?:optional\s+)?(group)/gi,
\* NULL when there is no match
FirstLabelMatch(text, triggers, optional) ==
  FirstGroup([i \in {j \in DOMAIN text : TriggerHits(text, j, triggers) # {}} |->
                LabelMatchAt(text, triggers, optional, i)])

\* the character of token j from which a trigger may start: after the "help"
\* of token h
HelpEnd(w, h, j) ==
  IF j > h THEN 1
  ELSE 4 + Min({p \in 1..Len(w) : IsPrefix(HELP, SubSeq(w, p, Len(w)))})

HelpTriggerIn(w, from) ==
  \E k \in DOMAIN LABEL_HELP_TRIGGERS :
    /\ IsSuffix(LABEL_HELP_TRIGGERS[k][1], w)
    /\ Len(w) - Len(LABEL_HELP_TRIGGERS[k][1]) + 1 >= from

HelpTriggerAt(text, h, j) ==
  HelpTriggerIn(Spelling[text[j]], HelpEnd(Spelling[text[j]], h, j))

HelpMatchAfter(text, helps) ==
  IF helps = {} THEN NULL
  ELSE FirstGroup([j \in {k \in Min(helps)..Len(text) : HelpTriggerAt(text, Min(helps), k)} |->
                     LabelCaptureAfter(text, j, <<>>)])

\* group 1 of the first match of /help.*?(?:with|create|build)\s+(group)/gi:
\* the first trigger after the first "help" from which the group matches
FirstHelpMatch(text) ==
  HelpMatchAfter(text, {i \in DOMAIN text : IsSubstring(HELP, Spelling[text[i]])})

Accepted(group, candidate) ==
  IF group # NULL /\ Len(candidate) > 3 /\ Len(candidate) < 30
     /\ ~isGenericText(candidate)
  THEN capitalizeWords(candidate) ELSE NULL

\* the candidate of one pattern of generateSmartLabel, NULL when the pattern
\* has no match or its first match is refused
LabelCandidate(group) == Accepted(group, Trim(group))

\* a template literal of generateSmartLabel, or a string of characters
Label(kind, tech, type, text) ==
  [kind |-> kind, tech |-> tech, type |-> type, text |-> text]

TextLabel(chars) == Label("text", "", "", chars)

\* an optional field of a record: <<>> when the field is undefined, <<v>> when
\* it holds v
Undefined == <<>>

Defined(v) == <<v>>

\* s.name && s.name.length > 3
RECURSIVE LongNames(_)
LongNames(sessions) ==
  IF Len(sessions) = 0 THEN <<>>
  ELSE LET name == Head(sessions).name IN
         IF name # Undefined /\ TextLength(name[1]) > 3
         THEN <<name[1]>> \o LongNames(Tail(sessions))
         ELSE LongNames(Tail(sessions))

\* the strategies of generateSmartLabel, each computed once; the code
\* computes them one after the other and returns at the first that holds
LabelStrategies(allText, composerSessions, prompts) ==
  [projectName  |-> IF Len(composerSessions) > 0
                    THEN extractProjectName(Join(Slice(LongNames(composerSessions), 3)))
                    ELSE NULL,
   extracted    |-> IF Len(prompts) > 0 /\ TextLength(prompts[1].text) > 10
                    THEN extractProjectName(prompts[1].text) ELSE NULL,
   technologies |-> detectTechnologies(allText),
   projectType  |-> determineProjectType(allText),
   byVerb |-> LabelCandidate(FirstLabelMatch(allText, LABEL_VERB_TRIGGERS, ARTICLE)),
   byNoun |-> LabelCandidate(FirstLabelMatch(allText, LABEL_NOUN_TRIGGERS, CALLED)),
   byHelp |-> LabelCandidate(FirstHelpMatch(allText))]

\* the first strategy that holds
FirstStrategy(s) ==
  IF s.projectName # NULL /\ s.projectName # DEVELOPMENT_PROJECT
    THEN TextLabel(s.projectName)
  ELSE IF s.extracted # NULL /\ s.extracted # DEVELOPMENT_PROJECT
    THEN TextLabel(s.extracted)
  ELSE IF Len(s.technologies) > 0 /\ s.projectType # "Unknown"
    THEN IF s.projectType = "MCP Development"
         THEN Label("${technologies[0]} MCP Server", s.technologies[1], "", <<>>)
         ELSE Label("${technologies[0]} ${projectType}", s.technologies[1],
                    s.projectType, <<>>)
  ELSE IF s.byVerb # NULL THEN TextLabel(s.byVerb)
  ELSE IF s.byNoun # NULL THEN TextLabel(s.byNoun)
  ELSE IF s.byHelp # NULL THEN TextLabel(s.byHelp)
  ELSE IF Len(s.technologies) > 0
    THEN Label("${technologies[0]} Project", s.technologies[1], "", <<>>)
  ELSE IF s.projectType # "Unknown"
    THEN Label("${projectType}", "", s.projectType, <<>>)
  ELSE TextLabel(DEVELOPMENT_PROJECT)

generateSmartLabel(allText, composerSessions, prompts) ==
  FirstStrategy(LabelStrategies(allText, composerSessions, prompts))

(***************************************************************************)
(* Status, time investment, last activity, summary, confidence.             *)
(***************************************************************************)
\* Array.slice(-n)
LastN(s, n) == SubSeq(s, IF Len(s) > n THEN Len(s) - n + 1 ELSE 1, Len(s))

Texts(entries) == [k \in DOMAIN entries |-> entries[k].text]

statusScores(recentTexts) ==
  Positive([k \in DOMAIN STATUS_PATTERNS |->
     [label |-> STATUS_PATTERNS[k].label,
      score |-> PlainScore(recentTexts, STATUS_PATTERNS[k].patterns)]])

\* a status that reads every prompt and generation
statusOfAllTexts(text, conversationData) ==
  TopLabel(statusScores(Join(Texts(conversationData.prompts)
                             \o Texts(conversationData.generations))),
           "Active")

detectProjectStatus(text, conversationData) ==
  TopLabel(statusScores(Join(Texts(LastN(conversationData.prompts, 5))
                             \o Texts(LastN(conversationData.generations, 5)))),
           "Active")

\* Math.round(x) of the fraction num / den (den > 0, num >= 0)
RoundDiv(num, den) == (2 * num + den) \div (2 * den)

\* hours are kept in tenths: estimatedHours = max(0.5, conversations * 0.1 +
\* sessions * 0.5), and Math.round(h * 10) / 10 of each result
calculateTimeInvestment(conversationData, composerSessions) ==
  LET sessions == IF Len(composerSessions) = 0 THEN 1 ELSE Len(composerSessions)
      conversations == Len(conversationData.prompts) + Len(conversationData.generations)
      raw == conversations + 5 * sessions
      estimatedTenths == IF raw < 5 THEN 5 ELSE raw
  IN [totalHours |-> estimatedTenths,
      sessionsCount |-> sessions,
      averageSessionLength |-> RoundDiv(estimatedTenths, sessions)]

\* a JavaScript value read from a unixMs field
Number(n) == [type |-> "number", n |-> n]

NotANumber == [type |-> "string", n |-> 0]

\* t && t > 0 (a string that is no number compares false with 0)
PositiveTime(t) == t.type = "number" /\ t.n > 0

Max(S) == CHOOSE x \in S : \A y \in S : y <= x

\* .filter(t => t && t > 0) of the timestamps of both arrays
allTimestamps(conversationData) ==
  {t.n : t \in {u \in Range([k \in DOMAIN conversationData.prompts |->
                               conversationData.prompts[k].timestamp])
                      \cup Range([k \in DOMAIN conversationData.generations |->
                               conversationData.generations[k].timestamp]) :
                  PositiveTime(u)}}

\* new Date(Math.max(...allTimestamps)), new Date() when there is none
Latest(timestamps, now) == IF timestamps = {} THEN now ELSE Max(timestamps)

\* a last activity that is always the time of the call
TimeOfCall(conversationData, now) == now

getLastActivity(conversationData, now) == Latest(allTimestamps(conversationData), now)

\* `${type} using ${tech}. ` and the two optional sentences, by their parts
generateActivitySummary(conversationData, analysis) ==
  [type |-> analysis.projectType,
   tech |-> analysis.primaryTechnology,
   codeModifications |-> IF analysis.metrics.codeChanges > 0
                         THEN <<analysis.metrics.codeChanges>> ELSE <<>>,
   extensiveHistory |-> IF analysis.metrics.promptCount > 10
                        THEN <<analysis.metrics.promptCount>> ELSE <<>>]

\* confidence in tenths: the base 0.3 and what each indicator adds (the
\* rounding of the sums of doubles is not modelled)
confidenceSum(analysis, allText) ==
  3 + (IF Len(analysis.technologies) > 0 THEN 2 ELSE 0)
    + (IF Len(analysis.technologies) > 2 THEN 1 ELSE 0)
    + (IF analysis.projectType # "Unknown" THEN 2 ELSE 0)
    + (IF analysis.smartLabel # TextLabel(DEVELOPMENT_PROJECT) THEN 2 ELSE 0)
    + (IF analysis.metrics.promptCount > 5 THEN 1 ELSE 0)
    + (IF analysis.metrics.promptCount > 20 THEN 1 ELSE 0)
    + (IF analysis.metrics.codeChanges > 0 THEN 1 ELSE 0)
    + (IF TextLength(allText) > 1000 THEN 1 ELSE 0)

\* the confidence without the final Math.min
UnclampedConfidence(analysis, allText) == confidenceSum(analysis, allText)

\* return Math.min(confidence, 1.0)
calculateConfidenceScore(analysis, allText) == Min({confidenceSum(analysis, allText), 10})

(***************************************************************************)
(* analyzeWorkspaceContent.                                                 *)
(***************************************************************************)
\* a || b on optional strings: the empty string and undefined are falsy
TruthyText(field) == field # Undefined /\ field[1] # <<"">>

\* a unixMs value is falsy when it is undefined, 0, NaN or ''
TruthyTime(field) ==
  field # Undefined /\ (field[1].type = "number" => field[1].n # 0)

normalizePrompt(p, now) ==
  [text |-> IF TruthyText(p.textDescription) THEN p.textDescription[1]
            ELSE IF TruthyText(p.text) THEN p.text[1]
            ELSE <<"">>,
   timestamp |-> IF TruthyTime(p.unixMs) THEN p.unixMs[1] ELSE Number(now),
   uuid |-> IF p.generationUUID # Undefined THEN p.generationUUID[1] ELSE ""]

normalizeGeneration(g, now) ==
  [text |-> IF TruthyText(g.textDescription) THEN g.textDescription[1] ELSE <<"">>,
   timestamp |-> IF TruthyTime(g.unixMs) THEN g.unixMs[1] ELSE Number(now),
   type |-> IF g.type # Undefined /\ g.type[1] # "" THEN g.type[1] ELSE "unknown",
   uuid |-> IF g.generationUUID # Undefined THEN g.generationUUID[1] ELSE ""]

\* s.name in the array that is joined: undefined joins as the empty string
SessionName(s) == IF s.name = Undefined THEN <<"">> ELSE s.name[1]

\* allText: [...prompt texts, ...generation texts, ...session names].join(' ')
combinedText(normalizedPrompts, normalizedGenerations, composerSessions) ==
  Join(Texts(normalizedPrompts) \o Texts(normalizedGenerations)
       \o [k \in DOMAIN composerSessions |-> SessionName(composerSessions[k])])

\* the normalized conversationData
normalize(prompts, generations, now) ==
  [prompts |-> [k \in DOMAIN prompts |-> normalizePrompt(prompts[k], now)],
   generations |-> [k \in DOMAIN generations |-> normalizeGeneration(generations[k], now)]]

\* the field metrics of the analysis
metricsOf(normalized, composerSessions) ==
  [promptCount |-> Len(normalized.prompts),
   generationCount |-> Len(normalized.generations),
   codeChanges |-> Cardinality({k \in DOMAIN normalized.generations :
                                  normalized.generations[k].type = "apply"}),
   conversationThreads |-> Len(composerSessions)]

\* the fields that generateActivitySummary and calculateConfidenceScore read
partialAnalysis(allText, technologies, normalized, composerSessions) ==
  [smartLabel |-> generateSmartLabel(allText, composerSessions, normalized.prompts),
   technologies |-> technologies,
   primaryTechnology |-> IF Len(technologies) > 0 THEN technologies[1] ELSE "Unknown",
   projectType |-> determineProjectType(allText),
   metrics |-> metricsOf(normalized, composerSessions)]

\* the WorkspaceAnalysis that is returned
fullAnalysis(workspaceId, allText, normalized, composerSessions, partial, now) ==
  [id |-> workspaceId,
   smartLabel |-> partial.smartLabel,
   projectType |-> partial.projectType,
   technologies |-> partial.technologies,
   primaryTechnology |-> partial.primaryTechnology,
   currentStatus |-> detectProjectStatus(allText, normalized),
   lastActivity |-> getLastActivity(normalized, now),
   activitySummary |-> generateActivitySummary(normalized, partial),
   keyTopics |-> extractKeyTopics(allText),
   collaborators |-> <<>>,
   problemsSolved |-> extractProblemsSolved(allText),
   currentGoals |-> extractCurrentGoals(allText),
   timeInvestment |-> calculateTimeInvestment(normalized, composerSessions),
   metrics |-> partial.metrics,
   confidence |-> calculateConfidenceScore(partial, allText)]

analyzeText(workspaceId, allText, normalized, composerSessions, now) ==
  fullAnalysis(workspaceId, allText, normalized, composerSessions,
               partialAnalysis(allText, detectTechnologies(allText), normalized,
                               composerSessions),
               now)

analyzeNormalized(workspaceId, normalized, composerSessions, now) ==
  analyzeText(workspaceId,
              combinedText(normalized.prompts, normalized.generations, composerSessions),
              normalized, composerSessions, now)

\* the body of analyzeWorkspaceContent once both arrays are there
analyze(workspaceId, prompts, generations, composerSessions, now) ==
  analyzeNormalized(workspaceId, normalize(prompts, generations, now), composerSessions, now)

\* the promise analyzeWorkspaceContent returns: conversationData.prompts.map
\* and conversationData.generations.map throw a TypeError on undefined
analyzeWorkspaceContent(workspaceId, conversationData, composerSessions, now) ==
  IF conversationData.prompts = Undefined \/ conversationData.generations = Undefined
  THEN [status |-> "rejected", reason |-> "TypeError", value |-> <<>>]
  ELSE [status |-> "fulfilled", reason |-> "",
        value |-> <<analyze(workspaceId, conversationData.prompts[1],
                            conversationData.generations[1], composerSessions, now)>>]

(***************************************************************************)
(* Relevance of one conversation text for a query (search tools).          *)
(* The score is a fraction; the rounding of the floating-point sums is not *)
(* modelled.                                                                *)
(***************************************************************************)
SearchType == {"content", "keywords", "technical", "problem", "solution", "all"}

\* keywords are phrases: the sequence of their blank-separated words
TECH_KEYWORDS ==
  <<<<<<"r", "e", "a", "c", "t">>>>,
    <<<<"v", "u", "e">>>>,
    <<<<"a", "n", "g", "u", "l", "a", "r">>>>,
    <<<<"t", "y", "p", "e", "s", "c", "r", "i", "p", "t">>>>,
    <<<<"j", "a", "v", "a", "s", "c", "r", "i", "p", "t">>>>,
    <<<<"p", "y", "t", "h", "o", "n">>>>,
    <<<<"j", "a", "v", "a">>>>,
    <<<<"n", "o", "d", "e", ".", "j", "s">>>>,
    <<<<"e", "x", "p", "r", "e", "s", "s">>>>,
    <<<<"d", "j", "a", "n", "g", "o">>>>,
    <<<<"f", "l", "a", "s", "k">>>>,
    <<<<"s", "p", "r", "i", "n", "g">>>>,
    <<<<"m", "o", "n", "g", "o", "d", "b">>>>,
    <<<<"p", "o", "s", "t", "g", "r", "e", "s", "q", "l">>>>,
    <<<<"m", "y", "s", "q", "l">>>>,
    <<<<"d", "o", "c", "k", "e", "r">>>>,
    <<<<"k", "u", "b", "e", "r", "n", "e", "t", "e", "s">>>>,
    <<<<"a", "w", "s">>>>,
    <<<<"a", "z", "u", "r", "e">>>>,
    <<<<"g", "i", "t">>>>,
    <<<<"g", "i", "t", "h", "u", "b">>>>,
    <<<<"a", "p", "i">>>>,
    <<<<"d", "a", "t", "a", "b", "a", "s", "e">>>>,
    <<<<"f", "r", "o", "n", "t", "e", "n", "d">>>>,
    <<<<"b", "a", "c", "k", "e", "n", "d">>>>,
    <<<<"f", "u", "l", "l", "s", "t", "a", "c", "k">>>>,
    <<<<"m", "o", "b", "i", "l", "e">>>>,
    <<<<"w", "e", "b">>>>,
    <<<<"a", "p", "p">>>>,
    <<<<"d", "e", "v", "e", "l", "o", "p", "m", "e", "n", "t">>>>,
    <<<<"d", "e", "v", "o", "p", "s">>>>,
    <<<<"c", "i", "/", "c", "d">>>>>>

PROBLEM_KEYWORDS ==
  <<<<<<"e", "r", "r", "o", "r">>>>,
    <<<<"b", "u", "g">>>>,
    <<<<"i", "s", "s", "u", "e">>>>,
    <<<<"p", "r", "o", "b", "l", "e", "m">>>>,
    <<<<"f", "i", "x">>>>,
    <<<<"d", "e", "b", "u", "g">>>>,
    <<<<"t", "r", "o", "u", "b", "l", "e", "s", "h", "o", "o", "t">>>>,
    <<<<"b", "r", "o", "k", "e", "n">>>>,
    <<<<"n", "o", "t">>, <<"w", "o", "r", "k", "i", "n", "g">>>>,
    <<<<"f", "a", "i", "l", "e", "d">>>>,
    <<<<"c", "r", "a", "s", "h">>>>,
    <<<<"e", "x", "c", "e", "p", "t", "i", "o", "n">>>>,
    <<<<"h", "e", "l", "p">>>>,
    <<<<"s", "t", "u", "c", "k">>>>,
    <<<<"r", "e", "s", "o", "l", "v", "e">>>>>>

SOLUTION_KEYWORDS ==
  <<<<<<"f", "i", "x">>>>,
    <<<<"s", "o", "l", "v", "e">>>>,
    <<<<"s", "o", "l", "u", "t", "i", "o", "n">>>>,
    <<<<"r", "e", "s", "o", "l", "v", "e", "d">>>>,
    <<<<"w", "o", "r", "k", "e", "d">>>>,
    <<<<"s", "u", "c", "c", "e", "s", "s">>>>,
    <<<<"i", "m", "p", "l", "e", "m", "e", "n", "t">>>>,
    <<<<"a", "p", "p", "r", "o", "a", "c", "h">>>>,
    <<<<"m", "e", "t", "h", "o", "d">>>>,
    <<<<"w", "a", "y">>, <<"t", "o">>>>,
    <<<<"h", "o", "w">>, <<"t", "o">>>>,
    <<<<"t", "u", "t", "o", "r", "i", "a", "l">>>>,
    <<<<"g", "u", "i", "d", "e">>>>,
    <<<<"s", "t", "e", "p", "s">>>>>>

\* text.includes(phrase): a phrase without blank lies inside one token; the
\* first word of a longer one ends a token, its last word begins a later one
\* and the words between are the tokens between
Includes(text, phrase) ==
  LET n == Len(phrase) IN
    IF n = 1 THEN \E i \in DOMAIN text : IsSubstring(phrase[1], Spelling[text[i]])
    ELSE \E i \in 1..(Len(text) - n + 1) :
           /\ IsSuffix(phrase[1], Spelling[text[i]])
           /\ \A j \in 2..(n - 1) : Spelling[text[i + j - 1]] = phrase[j]
           /\ IsPrefix(phrase[n], Spelling[text[i + n - 1]])

containsProblemKeywords(text) ==
  \E k \in DOMAIN PROBLEM_KEYWORDS : Includes(text, PROBLEM_KEYWORDS[k])

containsSolutionKeywords(text) ==
  \E k \in DOMAIN SOLUTION_KEYWORDS : Includes(text, SOLUTION_KEYWORDS[k])

containsTechnicalTerms(text) ==
  \E k \in DOMAIN TECH_KEYWORDS : Includes(text, TECH_KEYWORDS[k])

\* queryLower.split(/\s+/).filter(term => term.length > 2)
RECURSIVE queryTermsOf(_)
queryTermsOf(query) ==
  IF Len(query) = 0 THEN <<>>
  ELSE IF WordLen(Head(query)) > 2 THEN <<Head(query)>> \o queryTermsOf(Tail(query))
       ELSE queryTermsOf(Tail(query))

\* new RegExp(term, 'g') takes the term as a pattern: a quantifier with
\* nothing before it to repeat is a SyntaxError ("c++", "*args")
RegExpThrows(term) ==
  \E i \in DOMAIN term :
    /\ term[i] \in {"+", "*"}
    /\ i = 1 \/ term[i - 1] \in {"+", "*"}

\* the matches of the pattern in one token, left to right without overlap;
\* a term of letters and digits is a pattern that matches itself
Occurrences(term, word) ==
  MatchCountFrom({i \in 1..(Len(word) - Len(term) + 1) :
                    SubSeq(word, i, i + Len(term) - 1) = term},
                 Len(term), 1)

\* (text.match(new RegExp(term, 'g')) || []).length, for a term that is in
\* the text and has no blank
Frequency(text, term) ==
  LET F(w) == Occurrences(term, Spelling[w]) * Cardinality({i \in DOMAIN text : text[i] = w})
  IN SumOver(F, Range(text))

\* JavaScript numbers: a fraction or NaN
Fraction(num, den) == [nan |-> FALSE, num |-> num, den |-> den]

NaN == [nan |-> TRUE, num |-> 0, den |-> 1]

Returns(value) == [outcome |-> "returns", error |-> "", value |-> value]

Throws(error) == [outcome |-> "throws", error |-> error, value |-> NaN]

\* a < b, false when either is NaN
Less(a, b) == ~a.nan /\ ~b.nan /\ a.num * b.den < b.num * a.den

\* with L terms the sum is kept in units of 1 / (20 L): 0.1 per occurrence
\* is 2 L units, matchCount / L * 0.5 is 10 matchCount units; after the
\* multiplier the units are 1 / (40 L).  With no term, 0 / 0 is NaN and stays
\* NaN through the multiplier and Math.min.
matchedTerms(text, queryTerms) ==
  {k \in DOMAIN queryTerms : Includes(text, <<Spelling[queryTerms[k]]>>)}

\* score after the loop and the base score, in units of 1 / (20 L)
scoreUnits(text, queryTerms, matched) ==
  LET F(k) == Frequency(text, Spelling[queryTerms[k]])
  IN 2 * Len(queryTerms) * SumOver(F, matched) + 10 * Cardinality(matched)

\* the multiplier of the search type applies
multiplied(text, searchType) ==
  \/ searchType = "technical" /\ containsTechnicalTerms(text)
  \/ searchType = "problem" /\ containsProblemKeywords(text)
  \/ searchType = "solution" /\ containsSolutionKeywords(text)

\* Math.min(score, 1.0) of the score in units of 1 / (40 L)
capped(scaled, L) ==
  IF L = 0 THEN Returns(NaN)
  ELSE IF scaled > 40 * L THEN Returns(Fraction(1, 1))
  ELSE Returns(Fraction(scaled, 40 * L))

scoreOf(text, queryTerms, searchType, matched) ==
  IF \E k \in matched : RegExpThrows(Spelling[queryTerms[k]]) THEN Throws("SyntaxError")
  ELSE capped((IF multiplied(text, searchType) THEN 3 ELSE 2)
                * scoreUnits(text, queryTerms, matched),
              Len(queryTerms))

calculateRelevanceScore(text, queryTerms, searchType) ==
  scoreOf(text, queryTerms, searchType, matchedTerms(text, queryTerms))

\* the characters of the string whose tokens are text
Characters(text) == CharsFrom(text, 1, TextLength(text))

\* the start indexes of the occurrences of a term in a string
OccurrencesAt(chars, term) ==
  {p \in 0..(Len(chars) - Len(term)) : SubSeq(chars, p + 1, p + Len(term)) = term}

\* String.indexOf
indexOf(chars, term) ==
  IF OccurrencesAt(chars, term) = {} THEN -1 ELSE Min(OccurrencesAt(chars, term))

\* String.substring(from, to) for 0 <= from <= to
substring(chars, from, to) ==
  SubSeq(chars, from + 1, IF to > Len(chars) THEN Len(chars) ELSE to)

\* a loop that keeps the index of the last term found
lastFound(index, startIndex) == IF index # -1 THEN index ELSE startIndex

\* if (index !== -1 && (startIndex === -1 || index < startIndex)) startIndex = index
earliest(index, startIndex) ==
  IF index # -1 /\ (startIndex = -1 \/ index < startIndex) THEN index ELSE startIndex

\* for (const term of queryTerms): the startIndex after terms 1..k
RECURSIVE startIndexAfter(_, _, _)
startIndexAfter(chars, queryTerms, k) ==
  IF k = 0 THEN -1
  ELSE earliest(indexOf(chars, Spelling[queryTerms[k]]),
                startIndexAfter(chars, queryTerms, k - 1))

ELLIPSIS == <<".", ".", ".">>

\* the snippet around the term found at startIndex
snippetAround(chars, snippetStart, snippetEnd) ==
  (IF snippetStart > 0 THEN ELLIPSIS ELSE <<>>)
    \o substring(chars, snippetStart, snippetEnd)
    \o (IF snippetEnd < Len(chars) THEN ELLIPSIS ELSE <<>>)

snippetAt(chars, startIndex, maxLength) ==
  IF startIndex = -1
  THEN substring(chars, 0, maxLength) \o (IF Len(chars) > maxLength THEN ELLIPSIS ELSE <<>>)
  ELSE snippetAround(chars,
                     IF startIndex - 50 > 0 THEN startIndex - 50 ELSE 0,
                     Min({Len(chars), startIndex + maxLength - 50}))

createContextSnippet(text, queryTerms, maxLength) ==
  snippetAt(Characters(text), startIndexAfter(Characters(text), queryTerms, Len(queryTerms)),
            maxLength)

\* const { workspaceId, query, searchType = 'all', limit = 10 } = input
DEFAULT_LIMIT == 10

\* the minimum relevance threshold of the caller
THRESHOLD == Fraction(1, 10)

SearchResult(type, content, relevanceScore) ==
  [type |-> type, content |-> content, relevanceScore |-> relevanceScore]

\* if (score > 0.1) results.push({...})
pushIfRelevant(type, text, score) ==
  IF Less(THRESHOLD, score.value) THEN <<SearchResult(type, text, score.value)>> ELSE <<>>

\* for (const prompt of prompts) / for (const gen of generations): the
\* results one table adds, in the order of the table
RECURSIVE relevantIn(_, _, _, _)
relevantIn(type, texts, queryTerms, searchType) ==
  IF Len(texts) = 0 THEN <<>>
  ELSE pushIfRelevant(type, Head(texts),
                      calculateRelevanceScore(Head(texts), queryTerms, searchType))
       \o relevantIn(type, Tail(texts), queryTerms, searchType)

\* results.sort((a, b) => b.relevanceScore - a.relevanceScore), a stable sort
RECURSIVE InsertByRelevance(_, _)
InsertByRelevance(sorted, e) ==
  IF Len(sorted) = 0 THEN <<e>>
  ELSE IF Less(Head(sorted).relevanceScore, e.relevanceScore) THEN <<e>> \o sorted
       ELSE <<Head(sorted)>> \o InsertByRelevance(Tail(sorted), e)

RECURSIVE SortByRelevance(_)
SortByRelevance(results) ==
  IF Len(results) = 0 THEN <<>>
  ELSE InsertByRelevance(SortByRelevance(SubSeq(results, 1, Len(results) - 1)),
                         results[Len(results)])

\* a call of calculateRelevanceScore in one of the two loops throws: the
\* catch around them rejects the promise
scoringThrows(texts, queryTerms, searchType) ==
  \E k \in DOMAIN texts :
    calculateRelevanceScore(texts[k], queryTerms, searchType).outcome = "throws"

Resolved(pushed, limit) ==
  [outcome |-> "resolved", error |-> "", pushed |-> pushed,
   results |-> Slice(SortByRelevance(pushed), limit)]

Rejected(error) ==
  [outcome |-> "rejected", error |-> error, pushed |-> <<>>, results |-> <<>>]

\* the search of one workspace for the texts of its prompts and generations;
\* pushed is the result set before the sort and the cut
searchWorkspaceConversations(prompts, generations, query, searchType, limit) ==
  IF scoringThrows(prompts \o generations, queryTermsOf(query), searchType)
  THEN Rejected("SyntaxError")
  ELSE Resolved(relevantIn("prompt", prompts, queryTermsOf(query), searchType)
                  \o relevantIn("generation", generations, queryTermsOf(query), searchType),
                limit)

\* const { workspaceId, problemDescription, limit = 5 } = input
PROBLEMS_LIMIT == 5

\* the number of terms the text includes
matchesIn(text, problemTerms) ==
  Cardinality({k \in DOMAIN problemTerms : Includes(text, <<Spelling[problemTerms[k]]>>)})

\* matches / problemTerms.length, times 1.3 for a text with a problem
\* keyword; 0 / 0 is NaN
calculateProblemSimilarity(text, problemTerms) ==
  IF Len(problemTerms) = 0 THEN NaN
  ELSE IF containsProblemKeywords(text)
    THEN Fraction(13 * matchesIn(text, problemTerms), 10 * Len(problemTerms))
  ELSE Fraction(matchesIn(text, problemTerms), Len(problemTerms))

\* for (const tech of TECH_KEYWORDS) if (text.includes(tech)) push(tech)
RECURSIVE includedOf(_, _)
includedOf(text, keywords) ==
  IF Len(keywords) = 0 THEN <<>>
  ELSE (IF Includes(text, Head(keywords)) THEN <<Head(keywords)>> ELSE <<>>)
       \o includedOf(text, Tail(keywords))

\* the technologies of TECH_KEYWORDS the text includes, the first 5
extractTechnologies(text) == Slice(includedOf(text, TECH_KEYWORDS), 5)

\* problems.push({...}) for a prompt without a corresponding solution
SimilarProblem(text, similarity) ==
  [problemDescription |-> text,
   solutionApproach |-> "No solution found",
   success |-> FALSE,
   relevanceScore |-> similarity,
   technologyStack |-> extractTechnologies(text)]

\* if (similarity > 0.2) problems.push({...})
pushIfSimilar(text, similarity) ==
  IF Less(Fraction(1, 5), similarity) THEN <<SimilarProblem(text, similarity)>> ELSE <<>>

\* for (const prompt of prompts): the prompts that look like the description
\* of a problem and are similar
RECURSIVE similarIn(_, _)
similarIn(texts, problemTerms) ==
  IF Len(texts) = 0 THEN <<>>
  ELSE (IF containsProblemKeywords(Head(texts))
        THEN pushIfSimilar(Head(texts), calculateProblemSimilarity(Head(texts), problemTerms))
        ELSE <<>>)
       \o similarIn(Tail(texts), problemTerms)

\* the search of one workspace without generations for the texts of its
\* prompts
findSimilarProblems(prompts, problemDescription, limit) ==
  Resolved(similarIn(prompts, queryTermsOf(problemDescription)), limit)

(***************************************************************************)
(* Related composer sessions (session tools).                               *)
(***************************************************************************)
commonWords ==
  {<<"t", "h", "e">>,
   <<"a">>,
   <<"a", "n">>,
   <<"a", "n", "d">>,
   <<"o", "r">>,
   <<"b", "u", "t">>,
   <<"i", "n">>,
   <<"o", "n">>,
   <<"a", "t">>,
   <<"t", "o">>,
   <<"f", "o", "r">>,
   <<"o", "f">>,
   <<"w", "i", "t", "h">>,
   <<"b", "y">>,
   <<"i", "s">>,
   <<"a", "r", "e">>,
   <<"w", "a", "s">>,
   <<"w", "e", "r", "e">>,
   <<"b", "e">>,
   <<"b", "e", "e", "n">>,
   <<"h", "a", "v", "e">>,
   <<"h", "a", "s">>,
   <<"h", "a", "d">>,
   <<"d", "o">>,
   <<"d", "o", "e", "s">>,
   <<"d", "i", "d">>,
   <<"w", "i", "l", "l">>,
   <<"w", "o", "u", "l", "d">>,
   <<"c", "o", "u", "l", "d">>,
   <<"s", "h", "o", "u", "l", "d">>,
   <<"c", "a", "n">>,
   <<"m", "a", "y">>,
   <<"m", "i", "g", "h", "t">>,
   <<"t", "h", "i", "s">>,
   <<"t", "h", "a", "t">>,
   <<"t", "h", "e", "s", "e">>,
   <<"t", "h", "o", "s", "e">>,
   <<"i">>,
   <<"y", "o", "u">>,
   <<"h", "e">>,
   <<"s", "h", "e">>,
   <<"i", "t">>,
   <<"w", "e">>,
   <<"t", "h", "e", "y">>,
   <<"m", "e">>,
   <<"h", "i", "m">>,
   <<"h", "e", "r">>,
   <<"u", "s">>,
   <<"t", "h", "e", "m">>}

\* \w
WordChar(c) == c \in Letters \/ c \in Digits \/ c = "_"

\* .replace(/[^\w\s]/g, ' ').split(/\s+/) of one token: its runs of \w
RECURSIVE WordRuns(_, _)
WordRunAt(chars, s, n) == <<SubSeq(chars, s, s + n - 1)>> \o WordRuns(chars, s + n)

WordRunFrom(chars, s) ==
  WordRunAt(chars, s, PrefixRun(SubSeq(chars, s, Len(chars)), WordChar))

WordRuns(chars, from) ==
  IF \A i \in from..Len(chars) : ~WordChar(chars[i]) THEN <<>>
  ELSE WordRunFrom(chars, Min({i \in from..Len(chars) : WordChar(chars[i])}))

RECURSIVE Words(_)
Words(text) ==
  IF Len(text) = 0 THEN <<>>
  ELSE WordRuns(Spelling[Head(text)], 1) \o Words(Tail(text))

\* the keys of a Map filled word by word: each word where it first occurs
KeysWith(front, last) == IF last \in Range(front) THEN front ELSE Append(front, last)

RECURSIVE Keys(_)
Keys(words) ==
  IF Len(words) = 0 THEN <<>>
  ELSE KeysWith(Keys(SubSeq(words, 1, Len(words) - 1)), words[Len(words)])

\* .filter(word => word.length > 3 && !commonWords.has(word))
TopicWord(w) == Len(w) > 3 /\ w \notin commonWords

wordCount(words, keys) ==
  [k \in DOMAIN keys |->
     [label |-> keys[k],
      score |-> Cardinality({i \in DOMAIN words : words[i] = keys[k]})]]

wordCountOf(words) == wordCount(words, Keys(words))

extractTopics(text) ==
  IF TextLength(text) = 0 THEN <<>>
  ELSE Labels(Slice(SortByScore(wordCountOf(SelectSeq(Words(text), TopicWord))), 10))

\* Array.prototype.sort((a, b) => Key(b) - Key(a)) with fractions for keys:
\* stable, descending
RECURSIVE InsertByKey(_, _, _)
InsertByKey(Key(_), sorted, e) ==
  IF Len(sorted) = 0 THEN <<e>>
  ELSE IF Less(Key(Head(sorted)), Key(e)) THEN <<e>> \o sorted
       ELSE <<Head(sorted)>> \o InsertByKey(Key, Tail(sorted), e)

RECURSIVE SortByKey(_, _)
SortByKey(Key(_), entries) ==
  IF Len(entries) = 0 THEN <<>>
  ELSE InsertByKey(Key, SortByKey(Key, SubSeq(entries, 1, Len(entries) - 1)),
                   entries[Len(entries)])

\* Array.filter: the elements of s that are in the set kept, in their order
RECURSIVE Filter(_, _)
Filter(s, kept) ==
  IF Len(s) = 0 THEN <<>>
  ELSE IF Head(s) \in kept THEN <<Head(s)>> \o Filter(Tail(s), kept)
       ELSE Filter(Tail(s), kept)

\* sessionData.conversationFlow.map(entry => entry.content).join(' ')
allSessionText(session) ==
  Join([k \in DOMAIN session.conversationFlow |-> session.conversationFlow[k].content])

\* a filter that keeps a keyword only when it is a topic of the session
SharedTopicsOnly(searchKeywords, sessionKeywords, sessionText) ==
  Filter(searchKeywords, Range(sessionKeywords))

\* a filter that tests the first search keyword only
FirstKeywordOnly(searchKeywords, sessionKeywords, sessionText) ==
  Filter(Slice(searchKeywords, 1),
         {keyword \in Range(searchKeywords) : Includes(sessionText, <<keyword>>)})

\* searchKeywords.filter(keyword => sessionKeywords.includes(keyword) ||
\*                                  allSessionText.includes(keyword))
commonKeywords(searchKeywords, sessionKeywords, sessionText) ==
  Filter(searchKeywords,
         {keyword \in Range(searchKeywords) :
            \/ keyword \in Range(sessionKeywords)
            \/ Includes(sessionText, <<keyword>>)})

\* commonKeywords.length / Math.max(searchKeywords.length, 1)
similarity(searchKeywords, common) ==
  Fraction(Len(common), IF Len(searchKeywords) > 1 THEN Len(searchKeywords) ELSE 1)

\* the entries of a session with the share of the search keywords they hold
scoredConversations(session, searchKeywords) ==
  [k \in DOMAIN session.conversationFlow |->
     [type |-> session.conversationFlow[k].type,
      content |-> session.conversationFlow[k].content,
      relevanceScore |->
        Fraction(Cardinality({i \in DOMAIN searchKeywords :
                   Includes(session.conversationFlow[k].content, <<searchKeywords[i]>>)}),
                 Len(searchKeywords))]]

ByRelevance(e) == e.relevanceScore

\* .filter(entry => entry.relevanceScore > 0)
Relevant(scored) == Filter(scored, {e \in Range(scored) : e.relevanceScore.num > 0})

\* the snippets of a session that is related: the entries that hold a search
\* keyword, the three best
relevantConversations(session, searchKeywords) ==
  Slice(SortByKey(ByRelevance, Relevant(scoredConversations(session, searchKeywords))), 3)

relatedWith(session, searchKeywords, common) ==
  [composerId |-> session.composerId,
   sessionName |-> session.name,
   similarity |-> similarity(searchKeywords, common),
   matchingTopics |-> common,
   relevantConversations |-> relevantConversations(session, searchKeywords),
   reasonForMatch |->
     IF Len(common) > 0
     THEN [reason |-> "Shared topics", topics |-> Slice(common, 3)]
     ELSE [reason |-> "Content similarity based on search terms", topics |-> <<>>]]

relatedIn(session, searchKeywords, sessionText) ==
  relatedWith(session, searchKeywords,
              commonKeywords(searchKeywords, extractTopics(sessionText), sessionText))

\* what the loop of findRelatedSessionsImpl computes for one session
RelatedSession(session, searchKeywords) ==
  relatedIn(session, searchKeywords, allSessionText(session))

relatedAmong(sessionList, searchKeywords) ==
  [k \in DOMAIN sessionList |-> RelatedSession(sessionList[k], searchKeywords)]

BySimilarity(r) == r.similarity

\* if (similarity > 0.1)
Similar(all) == Filter(all, {r \in Range(all) : Less(Fraction(1, 10), r.similarity)})

\* the sessions with similarity > 0.1, the most similar first
findRelatedSessionsImpl(sessionList, searchText) ==
  SortByKey(BySimilarity, Similar(relatedAmong(sessionList, extractTopics(searchText))))

(***************************************************************************)
(* Inputs of analyzeWorkspaceContent.                                       *)
(***************************************************************************)
TEXT_CHAT_APP ==
  <<"building", "a", "react", "chat", "app", "with", "typescript", ",",
    "fixed", "a", "bug", "with", "websockets">>

TEXT_STACK ==
  <<"python", "react", "typescript", "docker", "redis", "jest", "mongodb",
    "flask", "django">>

TEXT_FIXES ==
  <<"fixed", "the", "login", "bug", ".", "fixed", "the", "login", "bug", ".",
    "fixed", "the", "login", "bug", ".", "fixed", "the", "login", "bug">>

TEXT_GOALS ==
  <<"want", "to", "build", "the", "login", "app", ".",
    "want", "to", "build", "the", "login", "app">>

TEXT_NAME == <<"websockets", "chat">>

TEXT_DONE == <<"build", "done", "docker", "pip">>

Prompt(textDescription, text, unixMs, generationUUID) ==
  [textDescription |-> textDescription, text |-> text, unixMs |-> unixMs,
   generationUUID |-> generationUUID]

Generation(textDescription, unixMs, type, generationUUID) ==
  [textDescription |-> textDescription, unixMs |-> unixMs, type |-> type,
   generationUUID |-> generationUUID]

EMPTY_PROMPT == Prompt(Undefined, Undefined, Undefined, Undefined)

STACK_PROMPT == Prompt(Undefined, Defined(TEXT_STACK), Defined(Number(2)), Defined("u2"))

CHAT_PROMPT == Prompt(Defined(TEXT_CHAT_APP), Undefined, Defined(Number(1)), Defined("u1"))

LONG_PROMPT == Prompt(Defined(<<LongWord>>), Undefined, Defined(Number(0)), Undefined)

DONE_PROMPT == Prompt(Defined(TEXT_DONE), Undefined, Defined(Number(2)), Undefined)

SHORT_PROMPT ==
  Prompt(Undefined, Defined(<<"react", "typescript", "docker">>), Defined(Number(2)),
         Defined("u2"))

FirstPrompts ==
  { EMPTY_PROMPT, STACK_PROMPT, CHAT_PROMPT, LONG_PROMPT, DONE_PROMPT,
    Prompt(Defined(TEXT_FIXES), Undefined, Undefined, Undefined),
    Prompt(Defined(TEXT_GOALS), Undefined, Defined(NotANumber), Defined("")),
    Prompt(Defined(<<"">>), Defined(TEXT_NAME), Defined(Number(1)), Undefined) }

\* prompts.length on either side of the two thresholds of the confidence
PromptCounts == {5, 6, MaxPrompts - 1, MaxPrompts}

ShortPromptLists == {<<>>} \cup {<<first>> : first \in FirstPrompts}

LongPromptLists ==
  {[k \in 1..n |-> IF k = 1 THEN first ELSE SHORT_PROMPT] :
     n \in PromptCounts, first \in {CHAT_PROMPT, LONG_PROMPT}}
  \cup {[k \in 1..MaxPrompts |-> EMPTY_PROMPT]}

APPLY_GENERATION == Generation(Undefined, Defined(Number(2)), Defined("apply"), Defined("u1"))

FIXES_GENERATION == Generation(Defined(TEXT_FIXES), Undefined, Undefined, Undefined)

STACK_GENERATION ==
  Generation(Defined(TEXT_STACK \o TEXT_STACK), Defined(Number(1)), Defined("composer"),
             Undefined)

GenerationLists ==
  {<<>>, <<APPLY_GENERATION>>, <<FIXES_GENERATION, STACK_GENERATION, APPLY_GENERATION>>}

SessionLists ==
  {<<>>, <<[name |-> Defined(TEXT_NAME)]>>, <<[name |-> Undefined], [name |-> Defined(<<"bug">>)]>>}

Input(prompts, generations, sessions) ==
  [conversationData |-> [prompts |-> prompts, generations |-> generations],
   composerSessions |-> sessions]

\* the calls: what the callers parse out of the workspace database, which may
\* lack either array
AnalysisInputs ==
  {Input(Defined(ps), Defined(gs), <<>>) :
     ps \in ShortPromptLists \cup LongPromptLists, gs \in GenerationLists}
  \cup {Input(Defined(ps), Defined(<<>>), ss) :
          ps \in ShortPromptLists, ss \in SessionLists}
  \cup {Input(Undefined, Defined(gs), <<>>) : gs \in GenerationLists}
  \cup {Input(Defined(ps), Undefined, <<>>) : ps \in {<<>>, <<CHAT_PROMPT>>}}

\* conversations whose entries carry their times: five recent prompts, five
\* recent generations, and the older entries that are put in front of them
RECENT_PROMPTS ==
  [n \in 1..5 |-> Prompt(Defined(<<"react">>), Undefined, Defined(Number(n + 1)), Undefined)]

RECENT_GENERATIONS ==
  [n \in 1..5 |->
     Generation(Defined(<<"react">>), Defined(Number(n + 1)), Defined("composer"), Undefined)]

OlderPrompts ==
  {Prompt(Defined(<<"done">>), Undefined, Defined(Number(1)), Undefined),
   Prompt(Undefined, Defined(<<"react">>), Defined(Number(1)), Undefined)}

OlderGenerations ==
  {Generation(Defined(<<"fixed", "the", "bug">>), Defined(Number(1)), Defined("apply"),
              Undefined),
   Generation(Defined(<<"react">>), Defined(Number(1)), Defined("composer"), Undefined)}

RecencyInputs ==
  {Input(Defined(ps), Defined(gs), <<>>) :
     ps \in {<<>>, <<DONE_PROMPT>>, RECENT_PROMPTS}, gs \in {<<>>, RECENT_GENERATIONS}}

(***************************************************************************)
(* Inputs of calculateRelevanceScore: the lower-cased text of a prompt or   *)
(* generation, and the query the caller splits into terms.                  *)
(***************************************************************************)
Documents ==
  { <<"">>,
    <<"react">>,
    <<"the", "react", "app">>,
    <<"fixed", "the", "bug">>,
    <<"building", "a", "chat">>,
    <<"react", "react", "react", "react", "react">>,
    <<"c++", "react">>,
    <<"x{49}", "react">>,
    <<"x{50}", "react", "x{94}">>,
    <<"x{50}", "react", "x{95}">>,
    <<"react", "x{50}", "bug">>,
    <<"bug", "x{50}", "react">>,
    <<"x{150}">>,
    <<"x{151}">> }

Queries ==
  { <<"">>,
    <<"a", "to">>,
    <<"react">>,
    <<"react", "bug">>,
    <<"build", "the", "c++">>,
    <<"c++">> }

(***************************************************************************)
(* Inputs of findRelatedSessionsImpl.                                       *)
(***************************************************************************)
TEXT_BUSY == TEXT_STACK \o <<"login", "chat", "fixed", "fixed">>

SearchTexts ==
  { <<"">>,
    <<"react", "chat", "app">>,
    <<"building", "react", "chat">>,
    <<"build", "docker">>,
    <<"chat", "docker">>,
    TEXT_BUSY }

Entry(content) == [type |-> "prompt", content |-> content]

Session(composerId, contents) ==
  [composerId |-> composerId, name |-> "session",
   conversationFlow |-> [k \in DOMAIN contents |-> Entry(contents[k])]]

SessionTexts ==
  {<<t>> : t \in SearchTexts} \cup {<<(<<"react", "chat", "app">>), (<<"build", "docker">>)>>}

StoredSessions ==
  {<<Session("c1", ts)>> : ts \in SessionTexts}
  \cup { <<Session("c1", <<(<<"building", "react", "chat">>)>>),
           Session("c2", <<(<<"chat", "docker">>)>>)>>,
         <<Session("c1", <<(<<"">>)>>),
           Session("c2", <<(<<"react", "chat", "app">>)>>)>> }

(***************************************************************************)
(* The finder tool (src/src/cursor/tools/database-query.ts): sessions that  *)
(* keep a current directory.  A path is the sequence of its segments, the   *)
(* file system root is the empty sequence.  The file system does not change *)
(* while the tool runs.                                                     *)
(***************************************************************************)
ROOT == <<>>

\* os.homedir()
HOME == <<"home", "user">>

Directories ==
  {ROOT, <<"home">>, HOME, HOME \o <<"docs">>, HOME \o <<"private">>, <<"etc">>}

\* directories fs.readdir fails on
Unreadable == {HOME \o <<"private">>}

Files == {HOME \o <<"notes.txt">>, HOME \o <<"photo.png">>}

\* the files isTextFile accepts by their extension
TextFiles == {HOME \o <<"notes.txt">>}

\* a target string, parsed: absolute when it starts with the separator
Relative(segments) == [absolute |-> FALSE, segments |-> segments]

Absolute(segments) == [absolute |-> TRUE, segments |-> segments]

\* the target ''
EMPTY_TARGET == Relative(<<>>)

\* the targets of cd requests, of read requests and of info requests
CdTargets ==
  {Undefined, Defined(Relative(<<"docs">>)), Defined(Relative(<<"private">>)),
   Defined(Relative(<<"..">>)), Defined(Absolute(<<"etc">>)),
   Defined(Relative(<<"notes.txt">>)), Defined(Relative(<<"missing">>))}

ReadTargets ==
  {Undefined, Defined(Relative(<<"notes.txt">>)), Defined(Relative(<<"photo.png">>)),
   Defined(Relative(<<"docs">>)), Defined(Relative(<<"missing">>))}

InfoTargets ==
  {Undefined, Defined(Relative(<<"notes.txt">>)), Defined(Relative(<<"missing">>))}

\* !input.target is false
TruthyTarget(target) == target # Undefined /\ target[1] # EMPTY_TARGET

\* path.dirname: the root is its own parent
dirname(path) == IF path = ROOT THEN ROOT ELSE SubSeq(path, 1, Len(path) - 1)

RECURSIVE Walk(_, _)
Walk(path, segments) ==
  IF Len(segments) = 0 THEN path
  ELSE Walk(IF Head(segments) = ".." THEN dirname(path) ELSE Append(path, Head(segments)),
            Tail(segments))

\* path.resolve(cwd, target): an absolute target replaces cwd, '..' steps up
resolve(cwd, target) == Walk(IF target.absolute THEN ROOT ELSE cwd, target.segments)

\* fs.stat succeeds
Exists(path) == path \in Directories \cup Files

\* session ids: the ids generateSessionId returns, an id a client made up,
\* the empty string, and the 'error' of an error response
GeneratedId(n) == <<"generated", n>>

GeneratedIds == {GeneratedId(n) : n \in 1..MaxGenerated}

CLIENT_ID == <<"client", 0>>

EMPTY_ID == <<"", 0>>

ERROR_ID == <<"error", 0>>

SessionIds ==
  {Undefined, Defined(EMPTY_ID), Defined(CLIENT_ID)} \cup {Defined(id) : id \in GeneratedIds}

\* sessionId && ...: undefined and '' are falsy
TruthyId(sessionId) == sessionId # Undefined /\ sessionId[1] # EMPTY_ID

\* what generateSessionId can return: it is called when sessionId is falsy
\* only, and returns an id that is not in the table
NOT_CALLED == <<"", 1>>

generateSessionId(table, sessionId) ==
  IF TruthyId(sessionId) THEN {NOT_CALLED} ELSE GeneratedIds \ DOMAIN table

\* Map.set
Put(table, key, value) ==
  [k \in DOMAIN table \cup {key} |-> IF k = key THEN value ELSE table[k]]

\* the FinderSession getOrCreateSession creates (no startPath is ever passed)
NewSession(newSessionId, at) ==
  [sessionId |-> newSessionId, cwd |-> HOME, rootDir |-> HOME,
   created |-> at, lastAccessed |-> at]

\* const newSessionId = sessionId || generateSessionId()
SessionKey(sessionId, generated) ==
  IF TruthyId(sessionId) THEN sessionId[1] ELSE generated

\* a lookup that never finds a session and creates one for every request
alwaysCreateSession(table, sessionId, generated, at) ==
  Put(table, SessionKey(sessionId, generated),
      NewSession(SessionKey(sessionId, generated), at))

\* the session table after getOrCreateSession(sessionId), at time at;
\* generated is what generateSessionId returns when it is called
getOrCreateSession(table, sessionId, generated, at) ==
  IF TruthyId(sessionId) /\ sessionId[1] \in DOMAIN table
  THEN [table EXCEPT ![sessionId[1]].lastAccessed = at]
  ELSE Put(table, SessionKey(sessionId, generated),
           NewSession(SessionKey(sessionId, generated), at))

\* the sessions cleanupOldSessions leaves; time is counted in hours
ONE_HOUR == 1

\* a cleanup that also removes the sessions accessed exactly one hour ago
cleanupFromOneHour(table, at) ==
  [k \in {id \in DOMAIN table : ~(table[id].lastAccessed <= at - ONE_HOUR)} |-> table[k]]

cleanupOldSessions(table, at) ==
  [k \in {id \in DOMAIN table : ~(table[id].lastAccessed < at - ONE_HOUR)} |-> table[k]]

\* session.cwd = ...; session.lastAccessed = Date.now()
Touched(session, cwd, at) == [session EXCEPT !.cwd = cwd, !.lastAccessed = at]

\* a reset that leaves the session where it is
StayPut(session, cwd, at) == [session EXCEPT !.lastAccessed = at]

\* case 'reset': session.cwd = session.rootDir
resetSession(session, cwd, at) == Touched(session, cwd, at)

\* what a case of the switch leaves: the session, and the message of the
\* error it threw ("" when it threw none)
Outcome(session, error) == [session |-> session, error |-> error]

\* listDirectory throws when the directory cannot be read
ListError(path) == IF path \in Unreadable THEN "EACCES" ELSE ""

caseList(session) == Outcome(session, ListError(session.cwd))

caseUp(session, at) ==
  IF dirname(session.cwd) # session.cwd
  THEN Outcome(Touched(session, dirname(session.cwd), at), ListError(dirname(session.cwd)))
  ELSE Outcome(session, "")

\* case 'cd' once the target is there and resolved
cdTo(session, targetPath, at) ==
  IF ~Exists(targetPath) THEN Outcome(session, "ENOENT")
  ELSE IF targetPath \notin Directories THEN Outcome(session, "is not a directory")
  ELSE Outcome(Touched(session, targetPath, at), ListError(targetPath))

caseCd(session, target, at) ==
  IF ~TruthyTarget(target)
  THEN Outcome(session, "Target directory required for cd action")
  ELSE cdTo(session, resolve(session.cwd, target[1]), at)

readAt(session, targetPath) ==
  IF ~Exists(targetPath) THEN Outcome(session, "ENOENT")
  ELSE IF targetPath \notin Files THEN Outcome(session, "is not a file")
  ELSE IF targetPath \notin TextFiles
       THEN Outcome(session, "File type not supported for reading")
       ELSE Outcome(session, "")

caseRead(session, target) ==
  IF ~TruthyTarget(target)
  THEN Outcome(session, "Target file required for read action")
  ELSE readAt(session, resolve(session.cwd, target[1]))

caseInfo(session, target) ==
  IF ~TruthyTarget(target)
  THEN Outcome(session, "Target file or directory required for info action")
  ELSE IF ~Exists(resolve(session.cwd, target[1])) THEN Outcome(session, "ENOENT")
  ELSE Outcome(session, "")

caseReset(session, at) ==
  Outcome(resetSession(session, session.rootDir, at), ListError(session.rootDir))

\* what the properties read of a request: its sessionId, its action, and the
\* cwd of the session getOrCreateSession returned for it
Request(sessionId, action, cwd) ==
  [sessionId |-> sessionId, action |-> action, cwd |-> cwd]

\* the FinderResponse of the handler, or the errorResponse of its catch
\* (cwd 'unknown' is Undefined here), with the request it answers
FinderResponse(request, outcome) ==
  IF outcome.error = ""
  THEN [request |-> request, sessionId |-> outcome.session.sessionId,
        cwd |-> Defined(outcome.session.cwd), error |-> ""]
  ELSE [request |-> request,
        sessionId |-> IF TruthyId(request.sessionId) THEN request.sessionId[1] ELSE ERROR_ID,
        cwd |-> Undefined, error |-> outcome.error]

\* a call of the handler between two of its awaits: the await it is at (pc),
\* the key of its session, its action, the targetPath it resolved, the
\* directory it called listDirectory with, and the cwd, the items (the
\* directory they are the listing of) and the error of its response
Flight(pc, key, action, targetPath, listed, cwd, items, error) ==
  [pc |-> pc, key |-> key, action |-> action, targetPath |-> targetPath,
   listed |-> listed, cwd |-> cwd, items |-> items, error |-> error]

NOT_STARTED == Flight("idle", ERROR_ID, "", ROOT, ROOT, Undefined, Undefined, "")

\* the handler is at an await
Awaiting(key, action, pc, targetPath, listed, cwd) ==
  Flight(pc, key, action, targetPath, listed, Defined(cwd), Undefined, "")

\* the handler has returned its response
Returned(key, action, cwd, items) ==
  Flight("done", key, action, ROOT, ROOT, Defined(cwd), items, "")

\* the catch has returned the errorResponse
Caught(key, action, error) ==
  Flight("done", key, action, ROOT, ROOT, Undefined, Undefined, error)

\* the handler from getOrCreateSession to its first await (or to its return)
\* for the session it got: what it leaves of the session, and where it is
beginList(key, session) ==
  [session |-> session,
   flight |-> Awaiting(key, "list", "listing", ROOT, session.cwd, session.cwd)]

beginWithTarget(key, action, pc, session, target, required) ==
  [session |-> session,
   flight |-> IF ~TruthyTarget(target) THEN Caught(key, action, required)
              ELSE Awaiting(key, action, pc, resolve(session.cwd, target[1]), ROOT,
                            session.cwd)]

beginUp(key, session, at) ==
  IF dirname(session.cwd) # session.cwd
  THEN [session |-> Touched(session, dirname(session.cwd), at),
        flight |-> Awaiting(key, "up", "listing", ROOT, dirname(session.cwd), session.cwd)]
  ELSE [session |-> session, flight |-> Returned(key, "up", session.cwd, Undefined)]

beginReset(key, session, at) ==
  [session |-> resetSession(session, session.rootDir, at),
   flight |-> Awaiting(key, "reset", "listing", ROOT, session.rootDir, session.cwd)]

\* after await fs.stat(targetPath) of case 'cd'
cdAfterStat(flight, session, at) ==
  IF ~Exists(flight.targetPath)
  THEN [session |-> session, flight |-> Caught(flight.key, "cd", "ENOENT")]
  ELSE IF flight.targetPath \notin Directories
  THEN [session |-> session, flight |-> Caught(flight.key, "cd", "is not a directory")]
  ELSE [session |-> Touched(session, flight.targetPath, at),
        flight |-> Awaiting(flight.key, "cd", "listing", flight.targetPath,
                            flight.targetPath, flight.cwd[1])]

\* after await fs.stat(targetPath) of case 'read'
readAfterStat(flight) ==
  IF ~Exists(flight.targetPath) THEN Caught(flight.key, "read", "ENOENT")
  ELSE IF flight.targetPath \notin Files THEN Caught(flight.key, "read", "is not a file")
  ELSE Awaiting(flight.key, "read", "reading", flight.targetPath, ROOT, flight.cwd[1])

\* after await readFile(targetPath, ...)
afterRead(flight) ==
  IF flight.targetPath \notin TextFiles
  THEN Caught(flight.key, "read", "File type not supported for reading")
  ELSE Returned(flight.key, "read", flight.cwd[1], Undefined)

\* after await getFileSystemItem(targetPath, true)
afterInfo(flight) ==
  IF ~Exists(flight.targetPath) THEN Caught(flight.key, "info", "ENOENT")
  ELSE Returned(flight.key, "info", flight.cwd[1], Undefined)

\* after await listDirectory(session.cwd, ...): case 'list' keeps the cwd the
\* response was built with; cd, up and reset set response.cwd = session.cwd
afterList(flight, session) ==
  IF ListError(flight.listed) # "" THEN Caught(flight.key, flight.action, ListError(flight.listed))
  ELSE Returned(flight.key, flight.action,
                IF flight.action = "list" THEN flight.cwd[1] ELSE session.cwd,
                Defined(flight.listed))

\* no request has been answered yet
NO_RESPONSE ==
  [request |-> Request(Undefined, "", ROOT), sessionId |-> ERROR_ID,
   cwd |-> Undefined, error |-> ""]

(***************************************************************************)
(* State.                                                                   *)
(***************************************************************************)
VARIABLES
  conversationData,   \* analysis: the ConversationData passed to the calls
  composerSessions,   \* analysis: the ComposerSession[] passed to the calls
  clock,              \* analysis: Date.now()
  results,            \* analysis: the promises of the calls made so far
  document,           \* search: the text that is scored
  query,              \* search: the query of the search
  searchType,         \* search: its SearchType
  scores,             \* search: the outcomes of calculateRelevanceScore so far
  problems,           \* search: the outcomes of findSimilarProblems so far
  searchText,         \* related sessions: the text searched with
  sessions,           \* related sessions: the composer sessions of the workspace
  related,            \* related sessions: the calls made so far and their results
  activeSessions,     \* finder: the Map of sessions, session id to FinderSession
  time,               \* finder: Date.now(), in hours
  handled,            \* finder: the number of requests handled so far
  response,           \* finder: the last request and the FinderResponse to it
  inflight,           \* finder: the requests in flight, each at one of its awaits
  guarded,            \* database: a read under a timer, its handle, timer and replies
  composer,           \* database: a getComposerSessionImpl call, its handle and promise
  timelines           \* database: the stored prompts and generations, and their merge

analysisVars == <<conversationData, composerSessions, clock, results>>

searchVars == <<document, query, searchType, scores, problems>>

relatedVars == <<searchText, sessions, related>>

finderVars == <<activeSessions, time, handled, response, inflight>>

dbVars == <<guarded, composer, timelines>>

vars == <<analysisVars, searchVars, relatedVars, finderVars, dbVars>>

WORKSPACE_ID == "ws"

AnalysisIdle ==
  /\ conversationData = [prompts |-> Defined(<<>>), generations |-> Defined(<<>>)]
  /\ composerSessions = <<>>
  /\ clock = StartTime
  /\ results = <<>>

SearchIdle ==
  /\ document = <<"">>
  /\ query = <<"">>
  /\ searchType = "all"
  /\ scores = <<>>
  /\ problems = <<>>

RelatedIdle ==
  /\ searchText = <<"">>
  /\ sessions = <<>>
  /\ related = <<>>

\* ---------------------------------------------------------------------
\* Database reads under a timer: handlePromptsExport (10 s) and
\* extractWorkspaceLabel (3 s). Each creates the handle, arms the timer and
\* queues the query in one synchronous block; the open callback, the timer
\* and the query callback then run in whatever order the event loop has them.
\* ---------------------------------------------------------------------

GuardedReads == {"handlePromptsExport", "extractWorkspaceLabel"}

\* what the query callback can be handed: an error, no row, or a row whose
\* value is one of these kinds of text
RowOutcomes == {"error", "no row", "invalid JSON", "not an array", "empty array", "prompts"}

\* how many reads one behaviour makes
MaxReads == 2

\* replies: what the reads that have ended gave their callers
NOT_READING ==
  [fn |-> "", handle |-> "none", timer |-> "none", query |-> "none",
   closes |-> 0, events |-> <<>>, resolved |-> <<>>, replies |-> <<>>]

\* new Promise(...): new sqlite3.Database(...), setTimeout(...), db.get(...)
startRead(fn, replies) ==
  [fn |-> fn, handle |-> "opening", timer |-> "armed", query |-> "queued",
   closes |-> 0, events |-> <<>>, resolved |-> <<>>, replies |-> replies]

\* the caller's await ends with the value of the first resolve
replied(read) ==
  [NOT_READING EXCEPT !.replies = Append(read.replies, read.resolved[1])]

\* resolve(value): every call is recorded; the promise takes the first
resolveWith(read, event, value) ==
  [read EXCEPT !.events = Append(@, event), !.resolved = Append(@, value)]

\* db.close()
close(read) == [read EXCEPT !.closes = @ + 1]

\* the open callback when the open failed
openFailedReply(fn) ==
  IF fn = "handlePromptsExport" THEN "Error connecting to database" ELSE "(db error)"

onOpenFailed(read) ==
  resolveWith([read EXCEPT !.handle = "failed"], "open fails", openFailedReply(read.fn))

\* the setTimeout handler: db.close(); resolveWith(...)
timeoutReply(fn) ==
  IF fn = "handlePromptsExport" THEN "Database operation timed out" ELSE "(timeout)"

onTimeout(read) ==
  resolveWith(close([read EXCEPT !.timer = "fired"]), "timer fires", timeoutReply(read.fn))

\* clearTimeout(timeout): nothing to clear once the timer has fired
clearTimeout(read) ==
  [read EXCEPT !.timer = IF @ = "armed" THEN "cleared" ELSE @]

\* what the query callback of handlePromptsExport resolves with
promptsExportReply(outcome) ==
  CASE outcome = "error" -> "Error extracting prompts"
    [] outcome = "no row" -> "No aiService.prompts found"
    [] outcome = "invalid JSON" -> "Error parsing prompts data"
    [] outcome = "not an array" -> "aiService.prompts data is not an array"
    [] outcome = "empty array" -> "No prompts found."
    [] OTHER -> "Prompts from Workspace"

\* what the query callback of extractWorkspaceLabel resolves with
workspaceLabelReply(outcome) ==
  CASE outcome \in {"error", "no row"} -> "(no prompts)"
    [] outcome = "invalid JSON" -> "(parse error)"
    [] outcome \in {"not an array", "empty array"} -> "(empty prompts)"
    [] OTHER -> "first prompt"

queryReply(fn, outcome) ==
  IF fn = "handlePromptsExport" THEN promptsExportReply(outcome)
  ELSE workspaceLabelReply(outcome)

\* the db.get callback: clearTimeout, then on each of its paths one db.close()
\* and one resolve
onQueryCallback(read, outcome) ==
  resolveWith(close(clearTimeout([read EXCEPT !.query = "called back"])),
          "query callback runs", queryReply(read.fn, outcome))

\* ---------------------------------------------------------------------
\* getComposerSessionImpl: discover the workspace databases, open the one of
\* the workspace, read composer.composerData, then read aiService.prompts
\* and aiService.generations; each step continues in a callback.
\* ---------------------------------------------------------------------

\* how many sessions one behaviour asks for
MaxLookups == 2

\* what discoverWorkspaceDatabases() and the find over its result can give
DiscoverOutcomes == {"rejects", "workspace not found", "workspace found"}

\* what the sqlite.get callback can be handed for composer.composerData: an
\* error, no row, or a row whose value is one of these kinds of text; "not an
\* array" is valid JSON on which .find is not a function
ComposerOutcomes ==
  {"error", "no row", "invalid JSON", "not an array", "without the session", "with the session"}

\* the value of an aiService.prompts or aiService.generations row: no such
\* row, text that is not JSON, JSON that cannot be spread, or an array
StoredValues == {"absent", "invalid JSON", "not iterable", "array"}

\* rows: what the sqlite.all callback was handed; settled: how the promises
\* of the calls ended
NO_ROWS == [err |-> FALSE, prompts |-> "absent", generations |-> "absent"]

NO_LOOKUP ==
  [pc |-> "idle", handle |-> "none", closes |-> 0, promise |-> "none",
   thrown |-> "", rows |-> NO_ROWS, settled |-> <<>>]

\* the call up to its first await
callGetComposerSession(call) ==
  [call EXCEPT !.pc = "discovering", !.handle = "none", !.closes = 0,
               !.promise = "pending", !.thrown = "", !.rows = NO_ROWS]

\* resolve(null), resolve(sessionData), or the async function's return/throw
settle(call, how) ==
  [call EXCEPT !.pc = "ended", !.promise = how, !.settled = Append(@, how)]

\* sqlite.close()
sqliteClose(call) == [call EXCEPT !.handle = "closed", !.closes = @ + 1]

\* an exception leaves a callback that no try block surrounds: the callback
\* ends there and resolve is never called
uncaught(call, error) == [call EXCEPT !.pc = "ended", !.thrown = error]

\* after await discoverWorkspaceDatabases(): a rejection rejects the promise
\* of the async function, a missing workspace returns null
afterDiscover(call, outcome) ==
  CASE outcome = "rejects" -> settle(call, "rejected")
    [] outcome = "workspace not found" -> settle(call, "null")
    [] OTHER -> [call EXCEPT !.pc = "opening"]

\* the callback of new sqlite3.Database(...)
onOpen(call, err) ==
  IF err THEN settle(call, "null")
  ELSE [call EXCEPT !.pc = "get", !.handle = "open"]

\* the sqlite.get callback: err or no row, a throw of JSON.parse or of
\* composerData.find caught by the try block, no such session, or the
\* sqlite.all query
onGet(call, outcome) ==
  IF outcome = "with the session" THEN [call EXCEPT !.pc = "all"]
  ELSE settle(sqliteClose(call), "null")

\* JSON.parse(row.value) and the spread of its result in rows.forEach
parseThrows(value) == value \in {"invalid JSON", "not iterable"}

parseError(value) ==
  IF value = "invalid JSON" THEN "SyntaxError" ELSE "TypeError"

\* the arguments of the sqlite.all callback
handed(call, err, prompts, generations) ==
  [call EXCEPT !.rows = [err |-> err, prompts |-> prompts, generations |-> generations]]

\* the sqlite.all callback: sqlite.close() first; it runs after the try block
\* of the sqlite.get callback has been left
onAll(call, err, prompts, generations) ==
  IF err THEN settle(sqliteClose(call), "null")
  ELSE IF parseThrows(prompts) THEN uncaught(sqliteClose(call), parseError(prompts))
  ELSE IF parseThrows(generations) THEN uncaught(sqliteClose(call), parseError(generations))
  ELSE settle(sqliteClose(call), "session data")

\* ---------------------------------------------------------------------
\* mergeConversationTimelineImpl: the prompts and generations of a
\* workspace as one flow in time order, with a marker where the topics
\* change. The rows are taken to be readable and their unixMs positive.
\* ---------------------------------------------------------------------

\* how many prompts and generations the workspace stores
MaxStored == 3

TimelineTexts ==
  { <<"react", "chat", "build">>,
    <<"docker", "python", "react", "flask">>,
    <<"react", "chat">>,
    <<"the", "app">> }

GenerationTypes == {"composer", "apply"}

StoredPrompt(unixMs, text) == [unixMs |-> unixMs, text |-> text]

StoredGeneration(unixMs, type, textDescription) ==
  [unixMs |-> unixMs, type |-> type, textDescription |-> textDescription]

\* prompts.forEach(prompt => conversationFlow.push({...}))
promptEntry(prompt) ==
  [timestamp |-> prompt.unixMs, type |-> "prompt", content |-> prompt.text,
   metadata |-> [topics |-> Undefined]]

\* generations.forEach(generation => conversationFlow.push(entry))
generationEntry(generation) ==
  [timestamp |-> generation.unixMs,
   type |-> IF generation.type = "apply" THEN "code_change" ELSE "generation",
   content |-> generation.textDescription,
   metadata |-> [topics |-> Undefined]]

pushedEntries(prompts, generations) ==
  [k \in DOMAIN prompts |-> promptEntry(prompts[k])]
  \o [k \in DOMAIN generations |-> generationEntry(generations[k])]

\* conversationFlow.sort((a, b) => a.timestamp.getTime() - b.timestamp.getTime())
RECURSIVE InsertByTime(_, _)
InsertByTime(sorted, e) ==
  IF Len(sorted) = 0 THEN <<e>>
  ELSE IF e.timestamp < Head(sorted).timestamp THEN <<e>> \o sorted
       ELSE <<Head(sorted)>> \o InsertByTime(Tail(sorted), e)

RECURSIVE SortByTime(_)
SortByTime(entries) ==
  IF Len(entries) = 0 THEN <<>>
  ELSE InsertByTime(SortByTime(SubSeq(entries, 1, Len(entries) - 1)), entries[Len(entries)])

\* entry.metadata.topics = extractTopics(entry.content)
withTopics(entry) ==
  [entry EXCEPT !.metadata.topics = Defined(extractTopics(entry.content))]

\* index > 0 && topics.length > 0 &&
\* commonTopics.length / Math.max(topics.length, previousTopics.length) < 0.3;
\* index counts from 1 here
topicShift(index, topics, previousTopics) ==
  /\ index > 1
  /\ Len(topics) > 0
  /\ Less(Fraction(Len(Filter(topics, Range(previousTopics))),
                   Max({Len(topics), Len(previousTopics)})),
          Fraction(3, 10))

topicShiftMarker(entry) ==
  [timestamp |-> entry.timestamp, type |-> "topic_shift",
   content |-> <<"Topic shift detected">> \o Slice(entry.metadata.topics[1], 3),
   metadata |-> [topics |-> entry.metadata.topics]]

\* conversationFlow.splice(index, 0, marker)
splice(flow, index, marker) ==
  SubSeq(flow, 1, index - 1) \o <<marker>> \o SubSeq(flow, index, Len(flow))

\* the marker goes in front of the entry being visited, in the array that is
\* being iterated
markedAt(flow, index, previousTopics) ==
  IF topicShift(index, flow[index].metadata.topics[1], previousTopics)
  THEN splice(flow, index, topicShiftMarker(flow[index]))
  ELSE flow

\* one call of the forEach callback: the element now at the index
visitAt(flow, index, previousTopics) ==
  markedAt([flow EXCEPT ![index] = withTopics(@)], index, previousTopics)

\* conversationFlow.forEach(...): the indices below the length the array had
\* when forEach was called, each read from the array as it is by then
RECURSIVE forEachFrom(_, _, _, _)
forEachFrom(flow, index, len, previousTopics) ==
  IF index > len THEN flow
  ELSE forEachFrom(visitAt(flow, index, previousTopics), index + 1, len,
                   extractTopics(flow[index].content))

detectTopicShifts(flow) == forEachFrom(flow, 1, Len(flow), <<>>)

statisticsOf(prompts, generations, conversationFlow) ==
  [promptCount |-> Len(prompts),
   generationCount |-> Len(generations),
   codeChanges |-> Cardinality({k \in DOMAIN generations : generations[k].type = "apply"}),
   topicChanges |->
     Cardinality({k \in DOMAIN conversationFlow : conversationFlow[k].type = "topic_shift"})]

timelineOf(prompts, generations, conversationFlow) ==
  [totalEntries |-> Len(conversationFlow),
   conversationFlow |-> conversationFlow,
   statistics |-> statisticsOf(prompts, generations, conversationFlow)]

mergeConversationTimelineImpl(prompts, generations) ==
  timelineOf(prompts, generations,
             detectTopicShifts(SortByTime(pushedEntries(prompts, generations))))

NO_TIMELINE == [prompts |-> <<>>, generations |-> <<>>, merged |-> Undefined]

DbIdle ==
  /\ guarded = NOT_READING
  /\ composer = NO_LOOKUP
  /\ timelines = NO_TIMELINE

FinderIdle ==
  /\ activeSessions = <<>>
  /\ time = 0
  /\ handled = 0
  /\ response = NO_RESPONSE
  /\ inflight = [p \in 1..MaxInFlight |-> NOT_STARTED]

(***************************************************************************)
(* Workspace analysis: calls of analyzeWorkspaceContent as time passes.     *)
(***************************************************************************)
InitAnalysis ==
  /\ \E input \in AnalysisInputs :
       /\ conversationData = input.conversationData
       /\ composerSessions = input.composerSessions
  /\ clock = StartTime
  /\ results = <<>>
  /\ SearchIdle
  /\ RelatedIdle
  /\ FinderIdle
  /\ DbIdle

\* time passes between calls
Tick ==
  /\ clock < StartTime + MaxClock
  /\ clock' = clock + 1
  /\ UNCHANGED <<conversationData, composerSessions, results, searchVars, relatedVars, finderVars, dbVars>>

\* one call of analyzeWorkspaceContent, settled
Analyze ==
  /\ Len(results) < MaxCalls
  /\ results' = Append(results,
       [now |-> clock,
        conversationData |-> conversationData,
        composerSessions |-> composerSessions,
        promise |-> analyzeWorkspaceContent(WORKSPACE_ID, conversationData,
                                            composerSessions, clock)])
  /\ UNCHANGED <<conversationData, composerSessions, clock, searchVars, relatedVars, finderVars, dbVars>>

NextAnalysis == Tick \/ Analyze

SpecAnalysis == InitAnalysis /\ [][NextAnalysis]_vars

(***************************************************************************)
(* Workspace analysis of a conversation that is found to hold older        *)
(* entries: calls of analyzeWorkspaceContent between which the arrays gain  *)
(* entries at their front and the sessions change.                          *)
(***************************************************************************)
InitRecency ==
  /\ \E input \in RecencyInputs :
       /\ conversationData = input.conversationData
       /\ composerSessions = input.composerSessions
  /\ clock = StartTime
  /\ results = <<>>
  /\ SearchIdle
  /\ RelatedIdle
  /\ FinderIdle
  /\ DbIdle

\* the number of older entries put in so far: those of time 1
OlderIn(entries) ==
  Cardinality({k \in DOMAIN entries : entries[k].unixMs = Defined(Number(1))})

MayGrow ==
  OlderIn(conversationData.prompts[1]) + OlderIn(conversationData.generations[1]) < MaxOlder

\* an older prompt is put in front of the prompts
OlderPrompt ==
  /\ MayGrow
  /\ \E p \in OlderPrompts :
       conversationData' =
         [conversationData EXCEPT !.prompts = Defined(<<p>> \o conversationData.prompts[1])]
  /\ UNCHANGED <<composerSessions, clock, results, searchVars, relatedVars, finderVars, dbVars>>

\* an older generation is put in front of the generations
OlderGeneration ==
  /\ MayGrow
  /\ \E g \in OlderGenerations :
       conversationData' =
         [conversationData EXCEPT
            !.generations = Defined(<<g>> \o conversationData.generations[1])]
  /\ UNCHANGED <<composerSessions, clock, results, searchVars, relatedVars, finderVars, dbVars>>

\* the composer sessions of the workspace get their names
NameSessions ==
  /\ composerSessions = <<>>
  /\ composerSessions' \in SessionLists \ {<<>>}
  /\ UNCHANGED <<conversationData, clock, results, searchVars, relatedVars, finderVars, dbVars>>

NextRecency == Analyze \/ OlderPrompt \/ OlderGeneration \/ NameSessions

SpecRecency == InitRecency /\ [][NextRecency]_vars

(***************************************************************************)
(* Search: the score of one text for one query, as the text gains           *)
(* occurrences of query terms.                                              *)
(***************************************************************************)
InitRelevance ==
  /\ document \in Documents
  /\ query \in Queries
  /\ searchType \in SearchType
  /\ scores = <<>>
  /\ problems = <<>>
  /\ AnalysisIdle
  /\ RelatedIdle
  /\ FinderIdle
  /\ DbIdle

\* the text as it is now has been scored
Scored == scores # <<>> /\ scores[Len(scores)].text = document

\* searchWorkspaceConversations scores the text: the query is split into its
\* terms, the text is scored for them.  The workspace searched holds the
\* texts scored before as its prompts and the text as it is now as its one
\* generation.
ScoreText ==
  /\ ~Scored
  /\ scores' = Append(scores,
       [text |-> document,
        result |-> calculateRelevanceScore(document, queryTermsOf(query), searchType),
        snippet |-> createContextSnippet(document, queryTermsOf(query), 150),
        search |-> searchWorkspaceConversations(Texts(scores), <<document>>, query,
                                                searchType, DEFAULT_LIMIT)])
  /\ UNCHANGED <<document, query, searchType, problems, analysisVars, relatedVars, finderVars, dbVars>>

\* the conversation goes on: the text gains one more occurrence of a query
\* term, after a blank
AddOccurrence ==
  /\ Scored
  /\ Len(scores) <= MaxOccurrences
  /\ \E k \in DOMAIN queryTermsOf(query) :
       document' = Append(document, queryTermsOf(query)[k])
  /\ UNCHANGED <<query, searchType, scores, problems, analysisVars, relatedVars, finderVars, dbVars>>

\* findSimilarProblems has looked through the text as it is now
ProblemsFound == problems # <<>> /\ problems[Len(problems)].text = document

\* one call of findSimilarProblems, settled: the query is the description of
\* the problem, the workspace holds the text as its one prompt and no
\* generation
FindProblems ==
  /\ ~ProblemsFound
  /\ problems' = Append(problems,
       [text |-> document,
        similar |-> findSimilarProblems(<<document>>, query, PROBLEMS_LIMIT)])
  /\ UNCHANGED <<document, query, searchType, scores, analysisVars, relatedVars, finderVars, dbVars>>

NextRelevance == ScoreText \/ AddOccurrence \/ FindProblems

SpecRelevance == InitRelevance /\ [][NextRelevance]_vars

(***************************************************************************)
(* Related sessions: calls of findRelatedSessionsImpl, and the same texts   *)
(* with their roles exchanged.                                              *)
(***************************************************************************)
InitSimilarity ==
  /\ searchText \in SearchTexts
  /\ sessions \in StoredSessions
  /\ related = <<>>
  /\ AnalysisIdle
  /\ SearchIdle
  /\ FinderIdle
  /\ DbIdle

\* the current search text and sessions have been searched
Searched ==
  /\ related # <<>>
  /\ related[Len(related)].searchText = searchText
  /\ related[Len(related)].sessions = sessions

\* one call of findRelatedSessionsImpl, settled
FindRelated ==
  /\ ~Searched
  /\ related' = Append(related,
       [searchText |-> searchText, sessions |-> sessions,
        relatedSessions |-> findRelatedSessionsImpl(sessions, searchText)])
  /\ UNCHANGED <<searchText, sessions, analysisVars, searchVars, finderVars, dbVars>>

\* the roles are exchanged: the next search is made with the text of a
\* session, and that session holds the text searched with before
ExchangeRoles ==
  /\ Searched
  /\ Len(related) <= MaxExchanges
  /\ \E k \in DOMAIN sessions :
       /\ searchText' = allSessionText(sessions[k])
       /\ sessions' = <<Session(sessions[k].composerId, <<searchText>>)>>
  /\ UNCHANGED <<related, analysisVars, searchVars, finderVars, dbVars>>

NextSimilarity == FindRelated \/ ExchangeRoles

SpecSimilarity == InitSimilarity /\ [][NextSimilarity]_vars

(***************************************************************************)
(* Finder: requests to the finder tool, the cleanup timer, time passing.    *)
(* A session id generated by generateSessionId (two Math.random strings) is *)
(* taken not to be the id of a session in the table.                        *)
(***************************************************************************)
InitFinder ==
  /\ FinderIdle
  /\ DbIdle
  /\ AnalysisIdle
  /\ SearchIdle
  /\ RelatedIdle

\* the session the handler gets from getOrCreateSession(input.sessionId)
sessionFor(sessionId, generated) ==
  getOrCreateSession(activeSessions, sessionId, generated, time)[SessionKey(sessionId, generated)]

\* the handler of the tool: getOrCreateSession, then the case of the action
\* with its outcome
Handle(sessionId, generated, action, outcome) ==
  /\ handled < MaxRequests
  /\ handled' = handled + 1
  /\ activeSessions' = Put(getOrCreateSession(activeSessions, sessionId, generated, time),
                           outcome.session.sessionId, outcome.session)
  /\ response' = FinderResponse(Request(sessionId, action, sessionFor(sessionId, generated).cwd), outcome)
  /\ UNCHANGED <<time, inflight, analysisVars, searchVars, relatedVars, dbVars>>

List ==
  \E sessionId \in SessionIds :
    \E generated \in generateSessionId(activeSessions, sessionId) :
    Handle(sessionId, generated, "list",
           caseList(sessionFor(sessionId, generated)))

Cd ==
  \E sessionId \in SessionIds, target \in CdTargets :
    \E generated \in generateSessionId(activeSessions, sessionId) :
    Handle(sessionId, generated, "cd",
           caseCd(sessionFor(sessionId, generated), target, time))

Up ==
  \E sessionId \in SessionIds :
    \E generated \in generateSessionId(activeSessions, sessionId) :
    Handle(sessionId, generated, "up",
           caseUp(sessionFor(sessionId, generated), time))

Read ==
  \E sessionId \in SessionIds, target \in ReadTargets :
    \E generated \in generateSessionId(activeSessions, sessionId) :
    Handle(sessionId, generated, "read",
           caseRead(sessionFor(sessionId, generated), target))

Info ==
  \E sessionId \in SessionIds, target \in InfoTargets :
    \E generated \in generateSessionId(activeSessions, sessionId) :
    Handle(sessionId, generated, "info",
           caseInfo(sessionFor(sessionId, generated), target))

Reset ==
  \E sessionId \in SessionIds :
    \E generated \in generateSessionId(activeSessions, sessionId) :
    Handle(sessionId, generated, "reset",
           caseReset(sessionFor(sessionId, generated), time))

\* the timer of registerFinderTool fires
Cleanup ==
  /\ activeSessions' = cleanupOldSessions(activeSessions, time)
  /\ UNCHANGED <<time, handled, response, inflight, analysisVars, searchVars, relatedVars, dbVars>>

\* an hour passes
Elapse ==
  /\ time < MaxTime
  /\ time' = time + 1
  /\ UNCHANGED <<activeSessions, handled, response, inflight, analysisVars, searchVars, relatedVars, dbVars>>

NextFinder == List \/ Cd \/ Up \/ Read \/ Info \/ Reset \/ Cleanup \/ Elapse

SpecFinder == InitFinder /\ [][NextFinder]_vars

\* setInterval(cleanupOldSessions, 10 * 60 * 1000) keeps firing, and time
\* keeps passing
SpecFinderTimer ==
  InitFinder /\ [][NextFinder]_vars /\ WF_vars(Cleanup) /\ WF_vars(Elapse)

(***************************************************************************)
(* Properties of the workspace analysis.                                    *)
(***************************************************************************)
\* the calls that returned an analysis
Fulfilled == {k \in DOMAIN results : results[k].promise.status = "fulfilled"}

\* the analysis call k returned
Analysis(k) == results[k].promise.value[1]

\* C1: every analysis that is returned has at most 5 technologies, at most 8
\* keyTopics, at most 3 problemsSolved and at most 3 currentGoals
C1_ListCaps ==
  \A k \in Fulfilled :
    /\ Len(Analysis(k).technologies) <= 5
    /\ Len(Analysis(k).keyTopics) <= 8
    /\ Len(Analysis(k).problemsSolved) <= 3
    /\ Len(Analysis(k).currentGoals) <= 3

\* C1 (case): an analysis whose four lists are all full, made from a
\* conversation that holds 9 technologies, 9 repeated words, 4 fixes, 4 goals
C1_AllListsFull ==
  \E k \in Fulfilled :
    /\ conversationData.generations[1] = <<FIXES_GENERATION, STACK_GENERATION, APPLY_GENERATION>>
    /\ Len(conversationData.prompts[1]) = 1
    /\ conversationData.prompts[1][1].textDescription = Defined(TEXT_GOALS)
    /\ Len(Analysis(k).technologies) = 5
    /\ Len(Analysis(k).keyTopics) = 8
    /\ Len(Analysis(k).problemsSolved) = 3
    /\ Len(Analysis(k).currentGoals) = 3

\* the sum of the confidence, in tenths, read off the analysis and the input
IndicatorSum(a) ==
  3 + (IF Len(a.technologies) >= 1 THEN 2 ELSE 0)
    + (IF Len(a.technologies) > 2 THEN 1 ELSE 0)
    + (IF a.projectType # "Unknown" THEN 2 ELSE 0)
    + (IF a.smartLabel # TextLabel(DEVELOPMENT_PROJECT) THEN 2 ELSE 0)
    + (IF Len(conversationData.prompts[1]) > 5 THEN 1 ELSE 0)
    + (IF Len(conversationData.prompts[1]) > 20 THEN 1 ELSE 0)
    + (IF \E i \in DOMAIN conversationData.generations[1] :
            conversationData.generations[1][i].type = Defined("apply")
       THEN 1 ELSE 0)
    + (IF TextLength(combinedText(
            normalize(conversationData.prompts[1], conversationData.generations[1], clock).prompts,
            normalize(conversationData.prompts[1], conversationData.generations[1], clock).generations,
            composerSessions)) > 1000
       THEN 1 ELSE 0)

\* C2: the confidence of every analysis is min(1.0, 0.3 + the increments of
\* the indicators that hold), and so lies in [0, 1]
C2_ConfidenceFormula ==
  \A k \in Fulfilled :
    /\ Analysis(k).confidence = IF IndicatorSum(Analysis(k)) < 10
                                THEN IndicatorSum(Analysis(k)) ELSE 10
    /\ Analysis(k).confidence \in 0..10

\* C2 (case): every increment applies, the raw sum is 1.4 and the confidence 1.0
C2_EveryIncrementApplies ==
  \E k \in Fulfilled : IndicatorSum(Analysis(k)) = 14 /\ Analysis(k).confidence = 10

\* prompts, generations and the session list are all empty
EmptyInput ==
  /\ conversationData = [prompts |-> Defined(<<>>), generations |-> Defined(<<>>)]
  /\ composerSessions = <<>>

\* C3: for empty prompts, generations and sessions the call returns projectType
\* 'Unknown', smartLabel 'Development Project', confidence 0.3, no technology,
\* primaryTechnology 'Unknown' and currentStatus 'Active'
C3_EmptyInput ==
  EmptyInput =>
    \A k \in DOMAIN results :
      /\ k \in Fulfilled
      /\ Analysis(k).projectType = "Unknown"
      /\ Analysis(k).smartLabel = TextLabel(DEVELOPMENT_PROJECT)
      /\ Analysis(k).confidence = 3
      /\ Analysis(k).technologies = <<>>
      /\ Analysis(k).primaryTechnology = "Unknown"
      /\ Analysis(k).currentStatus = "Active"

\* C3 (case): a call with the empty input has returned
C3_EmptyInputAnalyzed == EmptyInput /\ Fulfilled # {}

\* every record of the conversation has a truthy unixMs, and one of them is a
\* positive number
EveryRecordTimed ==
  /\ conversationData.prompts # Undefined
  /\ conversationData.generations # Undefined
  /\ \A i \in DOMAIN conversationData.prompts[1] :
       TruthyTime(conversationData.prompts[1][i].unixMs)
  /\ \A i \in DOMAIN conversationData.generations[1] :
       TruthyTime(conversationData.generations[1][i].unixMs)
  /\ \/ \E i \in DOMAIN conversationData.prompts[1] :
          PositiveTime(conversationData.prompts[1][i].unixMs[1])
     \/ \E i \in DOMAIN conversationData.generations[1] :
          PositiveTime(conversationData.generations[1][i].unixMs[1])

\* no record of the conversation has a unixMs that is a positive number
NoRecordTimed ==
  /\ \A i \in DOMAIN conversationData.prompts[1] :
       conversationData.prompts[1][i].unixMs = Undefined
       \/ ~PositiveTime(conversationData.prompts[1][i].unixMs[1])
  /\ \A i \in DOMAIN conversationData.generations[1] :
       conversationData.generations[1][i].unixMs = Undefined
       \/ ~PositiveTime(conversationData.generations[1][i].unixMs[1])

\* C9: two calls with the same input settle the same way and return the
\* same value in every field other than lastActivity; lastActivity is the
\* same too when every record has a truthy unixMs and one is a positive
\* number, and it is the time of the call when no record has a positive one
C9_DeterministicButLastActivity ==
  \A i, j \in DOMAIN results :
    /\ results[i].promise.status = results[j].promise.status
    /\ (i \in Fulfilled /\ j \in Fulfilled) =>
         /\ [Analysis(i) EXCEPT !.lastActivity = 0] = [Analysis(j) EXCEPT !.lastActivity = 0]
         /\ EveryRecordTimed => Analysis(i).lastActivity = Analysis(j).lastActivity
         /\ NoRecordTimed => Analysis(i).lastActivity = results[i].now

\* C9 (case): two calls at different times, every record with its timestamp
C9_TwoCallsTimed ==
  /\ EveryRecordTimed
  /\ Len(results) = 2
  /\ results[1].now # results[2].now
  /\ results[1].promise = results[2].promise
  /\ results[1].promise.status = "fulfilled"

\* C9 (as stated): two calls with the same input return the same output in
\* every field, whatever the time of each call
C9_Deterministic ==
  \A i, j \in DOMAIN results : results[i].promise = results[j].promise

\* a missing array read as the empty array
OrEmpty(field) == IF field = Undefined THEN <<>> ELSE field[1]

\* a record whose unparsable timestamp is read as a missing one
Parsed(record) ==
  IF record.unixMs # Undefined /\ record.unixMs[1].type # "number"
  THEN [record EXCEPT !.unixMs = Undefined] ELSE record

ParsedAll(records) == [i \in DOMAIN records |-> Parsed(records[i])]

\* C10 (as stated): no call rejects; a missing array is analyzed as the empty
\* array, a missing or unparsable timestamp as the time of the call
C10_NeverRejects ==
  \A k \in DOMAIN results :
    results[k].promise =
      [status |-> "fulfilled", reason |-> "",
       value |-> <<analyze(WORKSPACE_ID, ParsedAll(OrEmpty(conversationData.prompts)),
                           ParsedAll(OrEmpty(conversationData.generations)),
                           composerSessions, results[k].now)>>]

\* allText of the calls: the combined text of the conversation and the
\* session names
AllText ==
  combinedText(
    normalize(conversationData.prompts[1], conversationData.generations[1], clock).prompts,
    normalize(conversationData.prompts[1], conversationData.generations[1], clock).generations,
    composerSessions)

\* the patterns a table lists for a label
PatternsOf(table, label) ==
  table[CHOOSE k \in DOMAIN table : table[k].label = label].patterns

TableLabels(table) == {table[k].label : k \in DOMAIN table}

\* the summed score of a technology for a text
TechScoreOf(text, label) == WeightedScore(text, PatternsOf(TECHNOLOGY_PATTERNS, label))

\* the conversation is the one prompt "building a React chat app with
\* TypeScript, fixed a bug with websockets"
SingleChatPrompt ==
  /\ conversationData = [prompts |-> Defined(<<CHAT_PROMPT>>), generations |-> Defined(<<>>)]
  /\ composerSessions = <<>>

\* C11: primaryTechnology is 'Unknown' when no technology has a score above
\* 0, and otherwise it is the first of technologies and no technology has a
\* greater summed score; for the one prompt "building a React chat app with
\* TypeScript, fixed a bug with websockets" React and TypeScript are among the
\* technologies, primaryTechnology is the higher-scoring of the two, and
\* problemsSolved holds the text after "fixed"
C11_PrimaryTechnology ==
  \A k \in Fulfilled :
    /\ IF \A l \in TableLabels(TECHNOLOGY_PATTERNS) : TechScoreOf(AllText, l) = 0
       THEN /\ Analysis(k).technologies = <<>>
            /\ Analysis(k).primaryTechnology = "Unknown"
       ELSE /\ Analysis(k).technologies # <<>>
            /\ Analysis(k).primaryTechnology = Analysis(k).technologies[1]
            /\ \A l \in TableLabels(TECHNOLOGY_PATTERNS) :
                 TechScoreOf(AllText, l) <= TechScoreOf(AllText, Analysis(k).primaryTechnology)
    /\ SingleChatPrompt =>
         /\ {"React", "TypeScript"} \subseteq Range(Analysis(k).technologies)
         /\ Analysis(k).primaryTechnology \in {"React", "TypeScript"}
         /\ TechScoreOf(AllText, Analysis(k).primaryTechnology)
              >= Max({TechScoreOf(AllText, "React"), TechScoreOf(AllText, "TypeScript")})
         /\ capitalizeWords(CharsFrom(TEXT_CHAT_APP, 10, 50)) \in Range(Analysis(k).problemsSolved)

\* C11 (case): the one prompt has been analyzed: React scores 9, TypeScript 8,
\* React is the primary technology and "A Bug With Websockets" a problem solved
C11_ChatPromptAnalyzed ==
  \E k \in Fulfilled :
    /\ SingleChatPrompt
    /\ TechScoreOf(AllText, "React") = 9
    /\ TechScoreOf(AllText, "TypeScript") = 8
    /\ Analysis(k).primaryTechnology = "React"
    /\ Analysis(k).problemsSolved =
         << <<"A", " ", "B", "u", "g", " ", "W", "i", "t", "h", " ",
              "W", "e", "b", "s", "o", "c", "k", "e", "t", "s">> >>

\* the place of a label in the declaration order of a table
TableIndex(table, label) == CHOOSE k \in DOMAIN table : table[k].label = label

\* the number of tokens of the text that a key topic is the title-cased form of
TopicCount(text, topic) ==
  Cardinality({i \in DOMAIN text : capitalizeWords(Spelling[text[i]]) = topic})

\* C12: of two technologies of an analysis the earlier one has the greater
\* summed score, or the same score and the earlier place in
\* TECHNOLOGY_PATTERNS; of two keyTopics the earlier one does not occur less
\* often in the text
C12_SortedByScore ==
  \A k \in Fulfilled :
    /\ \A i, j \in DOMAIN Analysis(k).technologies :
         i < j =>
           \/ TechScoreOf(AllText, Analysis(k).technologies[i])
                > TechScoreOf(AllText, Analysis(k).technologies[j])
           \/ /\ TechScoreOf(AllText, Analysis(k).technologies[i])
                   = TechScoreOf(AllText, Analysis(k).technologies[j])
              /\ TableIndex(TECHNOLOGY_PATTERNS, Analysis(k).technologies[i])
                   < TableIndex(TECHNOLOGY_PATTERNS, Analysis(k).technologies[j])
    /\ \A i, j \in DOMAIN Analysis(k).keyTopics :
         i < j => TopicCount(AllText, Analysis(k).keyTopics[i])
                    >= TopicCount(AllText, Analysis(k).keyTopics[j])

\* C12 (case): React and Flask tie, as TypeScript and Python do, and each pair
\* is listed in table order after Django; the topic "Fixed" (4 times) comes
\* before "Python" (3 times)
C12_TiesInTableOrder ==
  \E k \in Fulfilled :
    /\ Analysis(k).technologies = <<"Django", "React", "Flask", "TypeScript", "Python">>
    /\ TechScoreOf(AllText, "React") = TechScoreOf(AllText, "Flask")
    /\ TechScoreOf(AllText, "TypeScript") = TechScoreOf(AllText, "Python")
    /\ Len(Analysis(k).keyTopics) = 8
    /\ Analysis(k).keyTopics[1] = <<"F", "i", "x", "e", "d">>
    /\ Analysis(k).keyTopics[3] = <<"P", "y", "t", "h", "o", "n">>
    /\ TopicCount(AllText, Analysis(k).keyTopics[1]) = 4
    /\ TopicCount(AllText, Analysis(k).keyTopics[3]) = 3

\* the text detectProjectStatus reads: the texts of the last 5 prompts and
\* of the last 5 generations
RecentText ==
  Join(Texts(LastN(normalize(conversationData.prompts[1],
                             conversationData.generations[1], clock).prompts, 5))
       \o Texts(LastN(normalize(conversationData.prompts[1],
                                conversationData.generations[1], clock).generations, 5)))

\* the score of a label of a table by the weighted rule: for each term of the
\* label its occurrences times (number of terms - index of the term), summed
WeightedRule(table, text, label) == WeightedScore(text, PatternsOf(table, label))

\* no label of the table has a greater score by the weighted rule
TopByWeightedRule(table, text, label) ==
  /\ WeightedRule(table, text, label) > 0
  /\ \A l \in TableLabels(table) :
       WeightedRule(table, text, l) <= WeightedRule(table, text, label)

\* C16 (as stated): every technology returned has a weighted score above 0;
\* the projectType, when a type has a weighted score above 0, is a type of the
\* greatest weighted score; the currentStatus, when a status has a weighted
\* score above 0, is a status of the greatest weighted score
C16_WeightedClassifiers ==
  \A k \in Fulfilled :
    /\ \A i \in DOMAIN Analysis(k).technologies :
         WeightedRule(TECHNOLOGY_PATTERNS, AllText, Analysis(k).technologies[i]) > 0
    /\ (\E l \in TableLabels(PROJECT_TYPE_PATTERNS) :
          WeightedRule(PROJECT_TYPE_PATTERNS, AllText, l) > 0)
         => TopByWeightedRule(PROJECT_TYPE_PATTERNS, AllText, Analysis(k).projectType)
    /\ (\E l \in TableLabels(STATUS_PATTERNS) :
          WeightedRule(STATUS_PATTERNS, RecentText, l) > 0)
         => TopByWeightedRule(STATUS_PATTERNS, RecentText, Analysis(k).currentStatus)

\* the score detectProjectStatus gives a status: the occurrences of the terms
\* of the status, summed
PlainRule(table, text, label) == PlainScore(text, PatternsOf(table, label))

\* the label has the greatest score, and of the labels with that score it is
\* the earliest in the table
FirstOfTheBest(table, label, best, others) ==
  /\ best > 0
  /\ \A l \in TableLabels(table) :
       \/ others[l] < best
       \/ others[l] = best /\ TableIndex(table, label) <= TableIndex(table, l)

TypeScores == [l \in TableLabels(PROJECT_TYPE_PATTERNS) |->
                 WeightedRule(PROJECT_TYPE_PATTERNS, AllText, l)]

StatusCounts == [l \in TableLabels(STATUS_PATTERNS) |->
                   PlainRule(STATUS_PATTERNS, RecentText, l)]

PromptsOf(k) == OrEmpty(results[k].conversationData.prompts)

GenerationsOf(k) == OrEmpty(results[k].conversationData.generations)

\* calls i and j were given the same last 5 prompts and the same last 5
\* generations
SameLastFive(i, j) ==
  /\ LastN(PromptsOf(i), 5) = LastN(PromptsOf(j), 5)
  /\ LastN(GenerationsOf(i), 5) = LastN(GenerationsOf(j), 5)

\* C17: currentStatus depends only on the last 5 prompts and the last 5
\* generations of the arrays: two calls that were given the same last 5
\* prompts and the same last 5 generations get the same currentStatus,
\* whatever older prompts, older generations or session names they were given
C17_StatusOfLastFiveOfEach ==
  \A i, j \in Fulfilled :
    SameLastFive(i, j) => Analysis(i).currentStatus = Analysis(j).currentStatus

\* C17 (case): the second call is given the prompt "done" in front of five
\* prompts and named sessions; the status is 'Active' as before
C17_OlderPromptIgnored ==
  \E i, j \in Fulfilled :
    /\ i < j
    /\ SameLastFive(i, j)
    /\ PromptsOf(i) = RECENT_PROMPTS
    /\ Len(PromptsOf(j)) = 6
    /\ PromptsOf(j)[1].textDescription = Defined(<<"done">>)
    /\ results[i].composerSessions # results[j].composerSessions
    /\ Analysis(i).currentStatus = "Active"
    /\ Analysis(j).currentStatus = "Active"

\* the entries of a conversation, each with its place counted from the end
\* of its array
EntriesOf(prompts, generations) ==
  {[kind |-> "prompt", place |-> Len(prompts) - k, entry |-> prompts[k]] :
     k \in DOMAIN prompts}
  \cup {[kind |-> "generation", place |-> Len(generations) - k, entry |-> generations[k]] :
          k \in DOMAIN generations}

\* the entries that fewer than n entries are more recent than, by unixMs
MostRecent(entries, n) ==
  {e \in entries :
     Cardinality({f \in entries : f.entry.unixMs[1].n > e.entry.unixMs[1].n}) < n}

\* C17 (as stated): two calls whose 5 most recent conversation entries are
\* identical get the same currentStatus
C17_StatusOfFiveMostRecent ==
  \A i, j \in Fulfilled :
    MostRecent(EntriesOf(PromptsOf(i), GenerationsOf(i)), 5)
      = MostRecent(EntriesOf(PromptsOf(j), GenerationsOf(j)), 5)
    => Analysis(i).currentStatus = Analysis(j).currentStatus

\* the number of times a token occurs in a text
TimesIn(text, w) == Cardinality({i \in DOMAIN text : text[i] = w})

\* a token of the text that can be a key topic: a word of more than 3
\* characters that is no stopword and occurs at least twice
Qualifies(text, w) ==
  /\ w \in Range(text)
  /\ IsWord(w)
  /\ \A c \in Range(Spelling[w]) : c \in Letters \cup Digits \cup {"_"}
  /\ WordLen(w) > 3
  /\ w \notin TOPIC_STOPWORDS
  /\ TimesIn(text, w) >= 2

\* C19: every keyTopic is the title-cased form of a qualifying token of the
\* combined text, there are at most 8, and a qualifying token that occurs
\* more often than some returned topic is returned too
C19_KeyTopicsQualify ==
  \A k \in Fulfilled :
    /\ Len(Analysis(k).keyTopics) <= 8
    /\ \A i \in DOMAIN Analysis(k).keyTopics :
         \E w \in Range(AllText) :
           /\ Qualifies(AllText, w)
           /\ capitalizeWords(Spelling[w]) = Analysis(k).keyTopics[i]
    /\ \A w \in Range(AllText) :
         ( /\ Qualifies(AllText, w)
           /\ \E i \in DOMAIN Analysis(k).keyTopics :
                TopicCount(AllText, Analysis(k).keyTopics[i]) < TimesIn(AllText, w) )
         => capitalizeWords(Spelling[w]) \in Range(Analysis(k).keyTopics)

\* C19 (case): more than 8 tokens qualify; "login" (6 times) and "fixed" (4
\* times) are returned, "django" (twice, as the returned "want") is left
\* out, and so is "the" (6 times, but of 3 characters)
C19_EightOfMany ==
  \E k \in Fulfilled :
    /\ Len(Analysis(k).keyTopics) = 8
    /\ Cardinality({w \in Range(AllText) : Qualifies(AllText, w)}) > 8
    /\ TimesIn(AllText, "login") = 6
    /\ Analysis(k).keyTopics[1] = capitalizeWords(Spelling["login"])
    /\ Analysis(k).keyTopics[2] = capitalizeWords(Spelling["fixed"])
    /\ capitalizeWords(Spelling["want"]) \in Range(Analysis(k).keyTopics)
    /\ Qualifies(AllText, "django")
    /\ capitalizeWords(Spelling["django"]) \notin Range(Analysis(k).keyTopics)
    /\ TimesIn(AllText, "the") = 6
    /\ capitalizeWords(Spelling["the"]) \notin Range(Analysis(k).keyTopics)

(***************************************************************************)
(* Properties of the relevance score.                                       *)
(***************************************************************************)
\* a number in [0, 1]
InUnitInterval(v) == ~v.nan /\ v.den > 0 /\ 0 <= v.num /\ v.num <= v.den

\* C4 (as stated): every call of calculateRelevanceScore returns a number in
\* [0, 1]
C4_ScoreInUnitInterval ==
  \A k \in DOMAIN scores :
    /\ scores[k].result.outcome = "returns"
    /\ InUnitInterval(scores[k].result.value)

\* C5 (as stated): a query without a term longer than 2 characters scores
\* exactly 0 for every text
C5_NoTermScoresZero ==
  queryTermsOf(query) = <<>> =>
    \A k \in DOMAIN scores :
      /\ scores[k].result.outcome = "returns"
      /\ ~scores[k].result.value.nan
      /\ scores[k].result.value.num = 0

\* C6 (as stated): when a text that has a score gains occurrences of a query
\* term, the score it gets then is not lower
C6_Monotone ==
  \A i, j \in DOMAIN scores :
    (i < j /\ scores[i].result.outcome = "returns") =>
      /\ scores[j].result.outcome = "returns"
      /\ ~Less(scores[j].result.value, scores[i].result.value)

\* the start indexes of the occurrences of the terms of the query in a string
TermsAt(chars) ==
  UNION {OccurrencesAt(chars, Spelling[queryTermsOf(query)[n]]) :
           n \in DOMAIN queryTermsOf(query)}

\* the snippet of a string in which a term occurs, i the smallest start index
\* of an occurrence: the characters max(0, i - 50) .. min(len, i + 100) - 1,
\* after '...' when max(0, i - 50) > 0 and before '...' when
\* min(len, i + 100) < len
WindowAt(chars, i) ==
  (IF Max({0, i - 50}) > 0 THEN ELLIPSIS ELSE <<>>)
    \o [n \in 1..(Min({Len(chars), i + 100}) - Max({0, i - 50})) |->
         chars[Max({0, i - 50}) + n]]
    \o (IF Min({Len(chars), i + 100}) < Len(chars) THEN ELLIPSIS ELSE <<>>)

\* the snippet of a string in which no term occurs: its first 150
\* characters, before '...' when it is longer
HeadOf(chars) ==
  [n \in 1..Min({Len(chars), 150}) |-> chars[n]]
    \o (IF Len(chars) > 150 THEN ELLIPSIS ELSE <<>>)

\* the body of the window holds at most 150 characters, position i among them
WindowHolds(chars, i) ==
  /\ Min({Len(chars), i + 100}) - Max({0, i - 50}) <= 150
  /\ Max({0, i - 50}) <= i
  /\ i < Min({Len(chars), i + 100})

SnippetAsClaimed(chars, snippet) ==
  IF TermsAt(chars) # {}
  THEN snippet = WindowAt(chars, Min(TermsAt(chars))) /\ WindowHolds(chars, Min(TermsAt(chars)))
  ELSE snippet = HeadOf(chars)

\* C22: createContextSnippet(text, terms, 150) is the window of 150
\* characters from 50 before the earliest occurrence of a term, with '...' at
\* each end that is cut; without an occurrence it is the first 150
\* characters, with '...' when the text is longer
C22_SnippetWindow ==
  \A k \in DOMAIN scores :
    SnippetAsClaimed(Characters(scores[k].text), scores[k].snippet)

\* C22 (case): a term at index 51 of a string of 152 characters: the snippet
\* is characters 1 .. 150 between two '...'
C22_CutAtBothEnds ==
  \E k \in DOMAIN scores :
    /\ scores[k].text = <<"x{50}", "react", "x{95}">>
    /\ query = <<"react", "bug">>
    /\ Len(scores[k].snippet) = 156
    /\ SubSeq(scores[k].snippet, 1, 4) = <<".", ".", ".", "x">>
    /\ SubSeq(scores[k].snippet, 54, 58) = Spelling["react"]
    /\ SubSeq(scores[k].snippet, 153, 156) = <<"x", ".", ".", ".">>

\* C23 (as stated): the relevanceScore of every result of findSimilarProblems
\* lies in [0, 1]
C23_ProblemScoreInUnitInterval ==
  \A k \in DOMAIN problems :
    \A i \in DOMAIN problems[k].similar.results :
      InUnitInterval(problems[k].similar.results[i].relevanceScore)

\* the texts of the workspace that search k looks through
Entries(k) == {scores[j].text : j \in 1..k}

\* the texts search k keeps in its result set, before the sort and the cut
KeptIn(k) == {scores[k].search.pushed[i].content : i \in DOMAIN scores[k].search.pushed}

\* a is a number and is not below b
NotBelow(a, b) == ~a.nan /\ ~Less(a, b)

\* the text contains at least one term of the query
ContainsTerm(text) == matchedTerms(text, queryTermsOf(query)) # {}

\* C20 (as stated): calculateRelevanceScore gives every text of the workspace
\* a score; a search keeps a text in its result set, before the sort and the
\* cut, exactly when the score of the text is not below 0.1; and for a query
\* that is not empty these are exactly the texts that contain at least one
\* term of the query
C20_KeptIffContainsTerm ==
  \A k \in DOMAIN scores :
    \A text \in Entries(k) :
      /\ calculateRelevanceScore(text, queryTermsOf(query), searchType).outcome = "returns"
      /\ text \in KeptIn(k) <=>
           NotBelow(calculateRelevanceScore(text, queryTermsOf(query), searchType).value,
                    THRESHOLD)
      /\ query # <<"">> => (text \in KeptIn(k) <=> ContainsTerm(text))

(***************************************************************************)
(* Properties of the similarity of related sessions.                        *)
(***************************************************************************)
\* the topics of a text, as a set
Topics(text) == Range(extractTopics(text))

\* the topics of the search text that occur in the text of the session
Found(search, session) ==
  {t \in Topics(search) : Includes(allSessionText(session), <<t>>)}

\* the share of the search topics that occur in the text of the session
FoundShare(search, session) ==
  Fraction(Cardinality(Found(search, session)),
           IF Cardinality(Topics(search)) > 1 THEN Cardinality(Topics(search)) ELSE 1)

\* the similarities call k lists for the session with this id
Listed(k, composerId) ==
  {related[k].relatedSessions[i].similarity :
     i \in {n \in DOMAIN related[k].relatedSessions :
              related[k].relatedSessions[n].composerId = composerId}}

SharedShare(A, B) ==
  Fraction(Cardinality(A \cap B), Max({Cardinality(A), Cardinality(B), 1}))

SimilarityOf(k, n) ==
  RelatedSession(related[k].sessions[n], extractTopics(related[k].searchText)).similarity

\* C21 (as stated): a session is left out of the result exactly when its
\* similarity is below 0.1; a session whose similarity is exactly 0.1 (1 of
\* 10 search topics) is returned
C21_ListedUnlessBelowMinimum ==
  \A k \in DOMAIN related :
    \A n \in DOMAIN related[k].sessions :
      (Listed(k, related[k].sessions[n].composerId) = {})
        <=> Less(SimilarityOf(k, n), Fraction(1, 10))

\* call j is call i with the roles exchanged: it searches with the text of
\* session n of call i, in a session that holds the search text of call i
Exchanged(i, n, j) ==
  /\ i < j
  /\ related[j].searchText = allSessionText(related[i].sessions[n])
  /\ related[j].sessions =
       <<Session(related[i].sessions[n].composerId, <<related[i].searchText>>)>>

Started(p, key, begun) ==
  /\ inflight[p].pc = "idle"
  /\ activeSessions' = Put(activeSessions, key, begun.session)
  /\ inflight' = [inflight EXCEPT ![p] = begun.flight]
  /\ UNCHANGED <<time, handled, response, analysisVars, searchVars, relatedVars, dbVars>>

BeginList ==
  \E p \in 1..MaxInFlight, sessionId \in SessionIds :
    \E generated \in generateSessionId(activeSessions, sessionId) :
      Started(p, SessionKey(sessionId, generated),
              beginList(SessionKey(sessionId, generated), sessionFor(sessionId, generated)))

BeginCd ==
  \E p \in 1..MaxInFlight, sessionId \in SessionIds, target \in CdTargets :
    \E generated \in generateSessionId(activeSessions, sessionId) :
      Started(p, SessionKey(sessionId, generated),
              beginWithTarget(SessionKey(sessionId, generated), "cd", "stat",
                              sessionFor(sessionId, generated), target,
                              "Target directory required for cd action"))

BeginUp ==
  \E p \in 1..MaxInFlight, sessionId \in SessionIds :
    \E generated \in generateSessionId(activeSessions, sessionId) :
      Started(p, SessionKey(sessionId, generated),
              beginUp(SessionKey(sessionId, generated), sessionFor(sessionId, generated),
                      time))

BeginRead ==
  \E p \in 1..MaxInFlight, sessionId \in SessionIds, target \in ReadTargets :
    \E generated \in generateSessionId(activeSessions, sessionId) :
      Started(p, SessionKey(sessionId, generated),
              beginWithTarget(SessionKey(sessionId, generated), "read", "stat",
                              sessionFor(sessionId, generated), target,
                              "Target file required for read action"))

BeginInfo ==
  \E p \in 1..MaxInFlight, sessionId \in SessionIds, target \in InfoTargets :
    \E generated \in generateSessionId(activeSessions, sessionId) :
      Started(p, SessionKey(sessionId, generated),
              beginWithTarget(SessionKey(sessionId, generated), "info", "info",
                              sessionFor(sessionId, generated), target,
                              "Target file or directory required for info action"))

BeginReset ==
  \E p \in 1..MaxInFlight, sessionId \in SessionIds :
    \E generated \in generateSessionId(activeSessions, sessionId) :
      Started(p, SessionKey(sessionId, generated),
              beginReset(SessionKey(sessionId, generated), sessionFor(sessionId, generated),
                         time))

\* fs.stat of case 'cd' settles
CdAfterStat ==
  \E p \in 1..MaxInFlight :
    /\ inflight[p].pc = "stat"
    /\ inflight[p].action = "cd"
    /\ activeSessions' =
         [activeSessions EXCEPT ![inflight[p].key] =
            cdAfterStat(inflight[p], activeSessions[inflight[p].key], time).session]
    /\ inflight' =
         [inflight EXCEPT ![p] =
            cdAfterStat(inflight[p], activeSessions[inflight[p].key], time).flight]
    /\ UNCHANGED <<time, handled, response, analysisVars, searchVars, relatedVars, dbVars>>

\* a step of a call that leaves the sessions as they are
Resumed(p, pc, flight) ==
  /\ inflight[p].pc = pc
  /\ inflight' = [inflight EXCEPT ![p] = flight]
  /\ UNCHANGED <<activeSessions, time, handled, response, analysisVars, searchVars,
                 relatedVars, dbVars>>

\* fs.stat of case 'read' settles
ReadAfterStat ==
  \E p \in 1..MaxInFlight :
    inflight[p].action = "read" /\ Resumed(p, "stat", readAfterStat(inflight[p]))

\* readFile settles
AfterRead ==
  \E p \in 1..MaxInFlight : Resumed(p, "reading", afterRead(inflight[p]))

\* getFileSystemItem settles
AfterInfo ==
  \E p \in 1..MaxInFlight : Resumed(p, "info", afterInfo(inflight[p]))

\* listDirectory settles
AfterList ==
  \E p \in 1..MaxInFlight :
    Resumed(p, "listing", afterList(inflight[p], activeSessions[inflight[p].key]))

NextFlights ==
  \/ BeginList \/ BeginCd \/ BeginUp \/ BeginRead \/ BeginInfo \/ BeginReset
  \/ CdAfterStat \/ ReadAfterStat \/ AfterRead \/ AfterInfo \/ AfterList

SpecFlights == InitFinder /\ [][NextFlights]_vars

(***************************************************************************)
(* Properties of the finder sessions.                                       *)
(***************************************************************************)
\* the session the last response names is in the table
Answered(action) ==
  /\ response.request.action = action
  /\ response.error = ""
  /\ response.sessionId \in DOMAIN activeSessions

\* C13: no step changes the rootDir of a session of the table, and after a
\* reset that succeeded the cwd of the session is its rootDir, which the
\* response reports as cwd
C13_ResetReturnsToRoot ==
  /\ [][\A id \in DOMAIN activeSessions \cap DOMAIN activeSessions' :
          activeSessions'[id].rootDir = activeSessions[id].rootDir]_vars
  /\ [](Answered("reset") =>
          /\ activeSessions[response.sessionId].cwd = activeSessions[response.sessionId].rootDir
          /\ response.cwd = Defined(activeSessions[response.sessionId].rootDir))

\* C13 (case): a session that a request had moved to the docs directory is
\* back in its rootDir after a reset
C13_ResetFromDocs ==
  /\ Answered("reset")
  /\ handled = 2
  /\ response.request.cwd = HOME \o <<"docs">>
  /\ activeSessions[response.sessionId].cwd = HOME
  /\ activeSessions[response.sessionId].rootDir = HOME

\* C14 (as stated): the cwd of every session is its rootDir or a directory
\* below its rootDir
C14_CwdWithinRoot ==
  \A id \in DOMAIN activeSessions :
    IsPrefix(activeSessions[id].rootDir, activeSessions[id].cwd)

\* the step is a request to the finder tool
IsRequest == handled' = handled + 1

\* the request finds its session in the table: the table keeps its keys and
\* the handler works on the cwd stored for the session
FoundSession(id) ==
  /\ DOMAIN activeSessions' = DOMAIN activeSessions
  /\ response'.request.cwd = activeSessions[id].cwd
  /\ activeSessions'[id].rootDir = activeSessions[id].rootDir
  /\ activeSessions'[id].created = activeSessions[id].created

\* the request adds one session to the table, under id, created now with
\* cwd = rootDir = the home directory, and the handler works on that cwd
CreatedSession(id) ==
  /\ id \notin DOMAIN activeSessions
  /\ DOMAIN activeSessions' = DOMAIN activeSessions \cup {id}
  /\ \A other \in DOMAIN activeSessions : activeSessions'[other] = activeSessions[other]
  /\ activeSessions'[id].sessionId = id
  /\ activeSessions'[id].rootDir = HOME
  /\ activeSessions'[id].created = time
  /\ response'.request.cwd = HOME

\* C15: a request whose sessionId is in the table works on the stored cwd of
\* that session and leaves the keys of the table as they are; a request
\* without a sessionId (undefined, or the empty string, which the code takes
\* for none) adds one session under a generated id that was not in the table;
\* a request with a sessionId that is not in the table adds one session under
\* exactly that id; a session that is added has cwd = rootDir = the home
\* directory
C15_SessionLookup ==
  [][IsRequest =>
       IF ~TruthyId(response'.request.sessionId)
       THEN \E id \in GeneratedIds : CreatedSession(id)
       ELSE IF response'.request.sessionId[1] \in DOMAIN activeSessions
            THEN FoundSession(response'.request.sessionId[1])
            ELSE CreatedSession(response'.request.sessionId[1])]_vars

\* C15 (case): the session of the first request has been cleaned up, and a
\* request with an id that is not in the table has added a session under
\* that id, in the home directory
C15_CreatedAfterCleanup ==
  /\ handled = 2
  /\ time = 2
  /\ response.request.sessionId = Defined(CLIENT_ID)
  /\ response.request.cwd = HOME
  /\ DOMAIN activeSessions = {CLIENT_ID}
  /\ activeSessions[CLIENT_ID].rootDir = HOME
  /\ activeSessions[CLIENT_ID].created = 2

\* the sessions of the table other than id are what they were
OthersUntouched(id) ==
  \A other \in DOMAIN activeSessions \ {id} :
    other \in DOMAIN activeSessions' /\ activeSessions'[other] = activeSessions[other]

\* the session that served the request is stored under id
ServedBy(id) ==
  /\ id \in DOMAIN activeSessions'
  /\ activeSessions'[id].sessionId = id
  /\ IF TruthyId(response'.request.sessionId)
     THEN id = response'.request.sessionId[1]
     ELSE id \in GeneratedIds \ DOMAIN activeSessions

\* C24 (as stated): when a request ends in an error response, the cwd of its
\* session is the cwd the session had when the handler got it, and no other
\* session is modified
C24_ErrorLeavesCwd ==
  [][(IsRequest /\ response'.error # "") =>
       \E id \in DOMAIN activeSessions' :
         /\ ServedBy(id)
         /\ activeSessions'[id].cwd = response'.request.cwd
         /\ OthersUntouched(id)]_vars

\* C25 (as stated): every response, success or error, carries in sessionId
\* the id under which the session that served the request is stored
C25_ResponseNamesSession ==
  [][IsRequest => ServedBy(response'.sessionId)]_vars

\* the ids a session can be stored under
StoredIds == GeneratedIds \cup {CLIENT_ID}

\* the session has not been accessed for more than one hour
Stale(id) == time - activeSessions[id].lastAccessed > ONE_HOUR

\* the step is a run of cleanupOldSessions that changes the table
IsCleanup == handled' = handled /\ time' = time /\ activeSessions' # activeSessions

\* C26: a run of cleanupOldSessions removes exactly the sessions whose
\* lastAccessed is more than one hour before the run and leaves the others as
\* they are; a request on a session of the table sets its lastAccessed to the
\* time of the request; no step removes a session that was accessed within
\* the last hour; and a session that is not accessed again is eventually
\* removed (as far as the hours of the model reach)
C26_CleanupRemovesStale ==
  /\ [][IsCleanup =>
          /\ DOMAIN activeSessions' = {id \in DOMAIN activeSessions : ~Stale(id)}
          /\ \A id \in DOMAIN activeSessions' : activeSessions'[id] = activeSessions[id]]_vars
  /\ [][(IsRequest /\ TruthyId(response'.request.sessionId)) =>
          activeSessions'[response'.request.sessionId[1]].lastAccessed = time]_vars
  /\ [][\A id \in DOMAIN activeSessions : ~Stale(id) => id \in DOMAIN activeSessions']_vars
  /\ \A id \in StoredIds : \A t \in 0..MaxTime :
       (id \in DOMAIN activeSessions /\ activeSessions[id].lastAccessed = t
          /\ t + ONE_HOUR < MaxTime)
       ~> (id \notin DOMAIN activeSessions \/ activeSessions[id].lastAccessed # t)

\* C26 (case): the session the first request created at hour 0 has been
\* removed at hour 2, and the session the second request created at hour 1
\* is still there
C26_StaleGoneFreshKept ==
  /\ handled = 2
  /\ time = 2
  /\ response.request.sessionId = Defined(CLIENT_ID)
  /\ DOMAIN activeSessions = {CLIENT_ID}
  /\ activeSessions[CLIENT_ID].created = 1
  /\ activeSessions[CLIENT_ID].lastAccessed = 1

\* C27 (as stated): with requests on one session in flight together, every
\* successful cd, up or reset response that returns items reports as cwd the
\* directory the items are the listing of
C27_ResponseSelfConsistent ==
  \A p \in 1..MaxInFlight :
    ( /\ inflight[p].pc = "done"
      /\ inflight[p].error = ""
      /\ inflight[p].action \in {"cd", "up", "reset"}
      /\ inflight[p].items # Undefined )
    => inflight[p].cwd = inflight[p].items

\* ---------------------------------------------------------------------
\* The database reads under a timer, as a state machine
\* ---------------------------------------------------------------------

\* the synchronous block of handlePromptsExport or extractWorkspaceLabel
StartRead ==
  /\ guarded.fn = ""
  /\ Len(guarded.replies) < MaxReads
  /\ \E fn \in GuardedReads : guarded' = startRead(fn, guarded.replies)
  /\ UNCHANGED <<composer, timelines, analysisVars, searchVars, relatedVars, finderVars>>

\* the open callback runs without an error
OpenSucceeds ==
  /\ guarded.handle = "opening"
  /\ guarded' = [guarded EXCEPT !.handle = "open"]
  /\ UNCHANGED <<composer, timelines, analysisVars, searchVars, relatedVars, finderVars>>

\* the open callback runs with an error
OpenFails ==
  /\ guarded.handle = "opening"
  /\ guarded' = onOpenFailed(guarded)
  /\ UNCHANGED <<composer, timelines, analysisVars, searchVars, relatedVars, finderVars>>

\* the timer runs out; only clearTimeout stops it
TimerFires ==
  /\ guarded.timer = "armed"
  /\ guarded' = onTimeout(guarded)
  /\ UNCHANGED <<composer, timelines, analysisVars, searchVars, relatedVars, finderVars>>

\* the query callback runs once the open has ended; on a handle that failed
\* to open it is handed an error
QueryCallback ==
  /\ guarded.query = "queued"
  /\ guarded.handle \in {"open", "failed"}
  /\ \E outcome \in RowOutcomes :
       /\ guarded.handle = "failed" => outcome = "error"
       /\ guarded' = onQueryCallback(guarded, outcome)
  /\ UNCHANGED <<composer, timelines, analysisVars, searchVars, relatedVars, finderVars>>

\* the caller has its reply, and the read has no callback left to run
ReadEnds ==
  /\ guarded.resolved # <<>>
  /\ guarded.query = "called back"
  /\ guarded' = replied(guarded)
  /\ UNCHANGED <<composer, timelines, analysisVars, searchVars, relatedVars, finderVars>>

NextTimedRead ==
  StartRead \/ OpenSucceeds \/ OpenFails \/ TimerFires \/ QueryCallback \/ ReadEnds

SpecTimedRead == InitFinder /\ [][NextTimedRead]_vars

\* the reply each of the three events resolves with
FirstEvent == guarded.events[1]

\* C28 (as stated): whatever the order of open failure, timer and query
\* callback, a handle that was opened is closed exactly once and never
\* again, and the reply is the one of the first of these events
C28_ClosedOnceFirstEventReplies ==
  /\ guarded.handle = "open" => guarded.closes <= 1
  /\ ( /\ guarded.handle = "open"
       /\ (guarded.timer = "fired" \/ guarded.query = "called back") )
     => guarded.closes = 1
  /\ guarded.resolved # <<>> =>
       \/ FirstEvent = "open fails" /\ guarded.resolved[1] = openFailedReply(guarded.fn)
       \/ FirstEvent = "timer fires" /\ guarded.resolved[1] = timeoutReply(guarded.fn)
       \/ /\ FirstEvent = "query callback runs"
          /\ \E outcome \in RowOutcomes : guarded.resolved[1] = queryReply(guarded.fn, outcome)

\* ---------------------------------------------------------------------
\* getComposerSessionImpl as a state machine
\* ---------------------------------------------------------------------

GetComposerSession ==
  /\ composer.pc \in {"idle", "ended"}
  /\ composer.pc = "ended" => composer.promise # "pending"
  /\ Len(composer.settled) < MaxLookups
  /\ composer' = callGetComposerSession(composer)
  /\ UNCHANGED <<guarded, timelines, analysisVars, searchVars, relatedVars, finderVars>>

Discovered ==
  /\ composer.pc = "discovering"
  /\ \E outcome \in DiscoverOutcomes : composer' = afterDiscover(composer, outcome)
  /\ UNCHANGED <<guarded, timelines, analysisVars, searchVars, relatedVars, finderVars>>

OpenCallback ==
  /\ composer.pc = "opening"
  /\ \E err \in BOOLEAN : composer' = onOpen(composer, err)
  /\ UNCHANGED <<guarded, timelines, analysisVars, searchVars, relatedVars, finderVars>>

GetCallback ==
  /\ composer.pc = "get"
  /\ \E outcome \in ComposerOutcomes : composer' = onGet(composer, outcome)
  /\ UNCHANGED <<guarded, timelines, analysisVars, searchVars, relatedVars, finderVars>>

AllCallback ==
  /\ composer.pc = "all"
  /\ \E err \in BOOLEAN : \E prompts \in StoredValues : \E generations \in StoredValues :
       composer' = onAll(handed(composer, err, prompts, generations),
                         err, prompts, generations)
  /\ UNCHANGED <<guarded, timelines, analysisVars, searchVars, relatedVars, finderVars>>

NextComposer ==
  GetComposerSession \/ Discovered \/ OpenCallback \/ GetCallback \/ AllCallback

\* sqlite3 calls each callback once and the event loop runs every callback
\* that is queued
SpecComposer ==
  /\ InitFinder
  /\ [][NextComposer]_vars
  /\ WF_vars(Discovered)
  /\ WF_vars(OpenCallback)
  /\ WF_vars(GetCallback)
  /\ WF_vars(AllCallback)

\* C29 (as stated): the promise of every getComposerSessionImpl call
\* eventually settles, with session data, null or a rejection, whatever the
\* open, the queries and the stored values give, and a call that has ended
\* has closed the handle it opened
C29_SettlesAndCloses ==
  /\ (composer.promise = "pending")
       ~> (composer.promise \in {"session data", "null", "rejected"})
  /\ [](composer.pc = "ended" => composer.handle # "open")

\* ---------------------------------------------------------------------
\* The merged timeline, as a state machine: the workspace gains prompts and
\* generations, each later than all before it, and the timeline is merged
\* ---------------------------------------------------------------------

Stored == Len(timelines.prompts) + Len(timelines.generations)

StorePrompt ==
  /\ Stored < MaxStored
  /\ \E text \in TimelineTexts :
       timelines' = [timelines EXCEPT
                       !.prompts = Append(@, StoredPrompt(Stored + 1, text)),
                       !.merged = Undefined]
  /\ UNCHANGED <<guarded, composer, analysisVars, searchVars, relatedVars, finderVars>>

StoreGeneration ==
  /\ Stored < MaxStored
  /\ \E type \in GenerationTypes : \E text \in TimelineTexts :
       timelines' = [timelines EXCEPT
                       !.generations = Append(@, StoredGeneration(Stored + 1, type, text)),
                       !.merged = Undefined]
  /\ UNCHANGED <<guarded, composer, analysisVars, searchVars, relatedVars, finderVars>>

\* one call of mergeConversationTimelineImpl, settled
MergeTimeline ==
  /\ timelines.merged = Undefined
  /\ timelines' = [timelines EXCEPT
                     !.merged = Defined(mergeConversationTimelineImpl(timelines.prompts,
                                                                      timelines.generations))]
  /\ UNCHANGED <<guarded, composer, analysisVars, searchVars, relatedVars, finderVars>>

NextTimeline == StorePrompt \/ StoreGeneration \/ MergeTimeline

SpecTimeline == InitFinder /\ [][NextTimeline]_vars

\* the merged flow, and in it the positions of the entries that are not
\* markers, in order
MergedFlow == timelines.merged[1].conversationFlow

RECURSIVE PositionsFrom(_, _)
PositionsFrom(flow, k) ==
  IF k > Len(flow) THEN <<>>
  ELSE IF flow[k].type # "topic_shift" THEN <<k>> \o PositionsFrom(flow, k + 1)
       ELSE PositionsFrom(flow, k + 1)

EntryPositions == PositionsFrom(MergedFlow, 1)

\* the topics of the n-th entry of the time-sorted flow
TopicsOfEntry(n) == extractTopics(MergedFlow[EntryPositions[n]].content)

SharedTopics(n) == Filter(TopicsOfEntry(n), Range(TopicsOfEntry(n - 1)))

\* the shift condition of the n-th entry, n > 1
ShiftsAt(n) ==
  /\ Len(TopicsOfEntry(n)) > 0
  /\ 10 * Len(SharedTopics(n)) < 3 * Max({Len(TopicsOfEntry(n)), Len(TopicsOfEntry(n - 1))})

MarkerBefore(n) ==
  /\ EntryPositions[n] > 1
  /\ MergedFlow[EntryPositions[n] - 1].type = "topic_shift"

\* C30 (as stated): in the merged timeline a topic_shift marker stands
\* immediately before an entry other than the first exactly when the entry
\* has a topic and shares fewer than 30% of max(its topics, the preceding
\* entry's topics) with the preceding entry; every entry has its topics in
\* its metadata; statistics.topicChanges counts the entries that shift
C30_MarkersWhereTopicsShift ==
  timelines.merged # Undefined =>
    /\ Len(EntryPositions) = Stored
    /\ \A n \in 2..Len(EntryPositions) : MarkerBefore(n) <=> ShiftsAt(n)
    /\ \A n \in DOMAIN EntryPositions :
         MergedFlow[EntryPositions[n]].metadata.topics = Defined(TopicsOfEntry(n))
    /\ timelines.merged[1].statistics.topicChanges
         = Cardinality({n \in 2..Len(EntryPositions) : ShiftsAt(n)})
====
